---- MODULE Spec2Model ----
(***************************************************************************)
(* The agent reasoning loop of python-agent-framework (core/agent.py):     *)
(* Agent.run and Agent.run_stream with the response parser, the tool       *)
(* dispatch, the message list, conversation memory and the execution log;  *)
(* and ParallelOrchestrator.run (core/orchestrator.py).                    *)
(*                                                                         *)
(* Python values are records [j, json, str, keys, expression]: j is the    *)
(* Python type, json the text json.dumps gives, str the text str() gives,  *)
(* keys/expression the keyword arguments a dict carries.  Raw model        *)
(* output is text (a TLA+ string); json.loads and the fence regex are      *)
(* tables over the finite universe of output texts.  Non-ASCII literals    *)
(* of the source are written in ASCII, the original in a comment; the     *)
(* three backquotes of a code fence are written ''' inside strings.        *)
(***************************************************************************)
EXTENDS Integers, Sequences, FiniteSets, TLC

VARIABLES agent,      \* the Agent instance and the frame of its current run
          twin,       \* a second Agent, same configuration, driven by run_stream
          orch,       \* an orchestrator and the frame of its run
          client      \* an LLMClient and the frame of its chat call

vars == <<agent, twin, orch, client>>

(***************************************************************************)
(* Bounds of the exploration.                                              *)
(***************************************************************************)
MaxIterCap == 2    \* max_iterations ranges over 0..MaxIterCap
MaxCalls == 2      \* model calls an agent makes over all its runs
MaxAgents == 3     \* agents a ParallelOrchestrator holds
MaxRetries == 3    \* max_retries ranges over 0..MaxRetries
MaxChats == 2      \* chat calls made on one LLMClient
MaxOrchRuns == 1   \* calls of run made on one orchestrator
MaxExchanges == 6  \* exchanges already stored in conversation_history
MaxStoreOps == 4   \* calls made on one ToolStorageManager

(***************************************************************************)
(* Python values.                                                          *)
(***************************************************************************)
VStr(s) == [j |-> "str", json |-> "\"" \o s \o "\"", str |-> s,
            keys |-> {}, expression |-> ""]
VNone == [j |-> "NoneType", json |-> "null", str |-> "None",
          keys |-> {}, expression |-> ""]
VInt(txt) == [j |-> "int", json |-> txt, str |-> txt,
              keys |-> {}, expression |-> ""]
VList(jsontxt, strtxt) == [j |-> "list", json |-> jsontxt, str |-> strtxt,
                           keys |-> {}, expression |-> ""]
VDict(jsontxt, strtxt, ks, expr) == [j |-> "dict", json |-> jsontxt, str |-> strtxt,
                                     keys |-> ks, expression |-> expr]
\* a complex number: json.dumps raises TypeError on it
VComplex(strtxt) == [j |-> "complex", json |-> "", str |-> strtxt,
                     keys |-> {}, expression |-> ""]

EmptyDict == VDict("{}", "{}", {}, "")

\* Python truthiness, as `if final_answer:` tests it
Truthy(v) ==
    CASE v.j = "NoneType" -> FALSE
      [] v.j = "str" -> v.str # ""
      [] v.j = "int" -> v.str # "0"
      [] v.j = "list" -> v.json # "[]"
      [] v.j = "dict" -> v.json # "{}"
      [] OTHER -> TRUE

\* hash(v) succeeds: `v in some_dict` raises TypeError otherwise
Hashable(v) == v.j \notin {"list", "dict"}

\* json.dumps(v) succeeds
Serializable(v) == v.j # "complex"

(***************************************************************************)
(* Raw model outputs.  An output is delivered whole (chat) or as two       *)
(* chunks (parse_stream); its text is the concatenation of the chunks.     *)
(***************************************************************************)
Text(o) == o[1] \o o[2]

OutFinal == <<"{\"final_answer\": ", "\"4\"}">>
OutCalc == <<"{\"action\": \"calculator\", ", "\"action_input\": {\"expression\": \"2+2\"}}">>
OutPlain == <<"The answer ", "is 4.">>
OutBoth == <<"{\"final_answer\": \"4\", ",
             "\"action\": \"calculator\", \"action_input\": {\"expression\": \"2+2\"}}">>
OutBothFenced == <<"Done.\n'''json\n{\"final_answer\": \"4\", ",
                   "\"tool\": \"calculator\", \"parameters\": {\"expression\": \"2+2\"}}\n'''">>
OutBothEmpty == <<"{\"final_answer\": \"\", ",
                  "\"action\": \"calculator\", \"action_input\": {\"expression\": \"2+2\"}}">>
OutUnknown == <<"{\"action\": \"nosuch\", ", "\"action_input\": {}}">>
OutListName == <<"{\"action\": [\"calculator\"], ", "\"action_input\": {}}">>
OutNullName == <<"{\"tool\": ", "null}">>
OutNotMap == <<"{\"action\": \"calculator\", ", "\"action_input\": [1]}">>
OutMisfit == <<"{\"tool\": \"calculator\", ", "\"parameters\": {\"x\": 1}}">>
OutFlaky == <<"'''json\n{\"tool\": \"flaky\", ", "\"parameters\": {}}\n'''">>
OutComplex == <<"{\"action\": \"calculator\", ",
                "\"action_input\": {\"expression\": \"(-1)**0.5\"}}">>

\* valid JSON that is no object, and a fenced block that does not decode
OutJsonList == <<"[\"tool\", ", "\"calculator\"]">>
OutJsonString == <<"\"use the ", "tool\"">>
OutJsonNull == <<"nu", "ll">>
OutFencedBad == <<"'''json\n{\"tool\": ", "calculator}\n'''">>

\* an object whose final_answer is the empty string
OutFinalEmpty == <<"{\"final_answer\": ", "\"\"}">>

Outputs == {OutFinal, OutCalc, OutPlain, OutBoth, OutBothFenced, OutBothEmpty,
            OutUnknown, OutListName, OutNullName, OutNotMap, OutMisfit, OutFlaky,
            OutComplex, OutJsonList, OutJsonString, OutJsonNull, OutFencedBad,
            OutFinalEmpty}

\* the values the outputs carry
Args22 == VDict("{\"expression\": \"2+2\"}", "{'expression': '2+2'}", {"expression"}, "2+2")
ArgsComplex == VDict("{\"expression\": \"(-1)**0.5\"}", "{'expression': '(-1)**0.5'}",
                     {"expression"}, "(-1)**0.5")
ArgsX == VDict("{\"x\": 1}", "{'x': 1}", {"x"}, "")
ListCalc == VList("[\"calculator\"]", "['calculator']")
List1 == VList("[1]", "[1]")

(***************************************************************************)
(* json.loads and the fence regex.  A decoded value is a record: kind is   *)
(* the Python type of the result ("JSONDecodeError" when decoding raises,  *)
(* "nomatch" when the regex finds no fenced block), has the keys k for     *)
(* which `k in data` is true, and one field per key the parser reads.      *)
(***************************************************************************)
Decoded(kind, has, fa, act, ai, tool, params) ==
    [kind |-> kind, has |-> has, final_answer |-> fa, action |-> act,
     action_input |-> ai, tool |-> tool, parameters |-> params]

DecodeError == Decoded("JSONDecodeError", {}, VNone, VNone, VNone, VNone, VNone)
NoMatch == Decoded("nomatch", {}, VNone, VNone, VNone, VNone, VNone)

BothFencedObject ==
    Decoded("dict", {"final_answer", "tool", "parameters"},
            VStr("4"), VNone, VNone, VStr("calculator"), Args22)
FlakyObject ==
    Decoded("dict", {"tool", "parameters"}, VNone, VNone, VNone, VStr("flaky"), EmptyDict)

\* json.loads(text)
json_loads(text) ==
    CASE text = Text(OutFinal) ->
           Decoded("dict", {"final_answer"}, VStr("4"), VNone, VNone, VNone, VNone)
      [] text = Text(OutCalc) ->
           Decoded("dict", {"action", "action_input"},
                   VNone, VStr("calculator"), Args22, VNone, VNone)
      [] text = Text(OutFinalEmpty) ->
           Decoded("dict", {"final_answer"}, VStr(""), VNone, VNone, VNone, VNone)
      [] text = Text(OutBoth) ->
           Decoded("dict", {"final_answer", "action", "action_input"},
                   VStr("4"), VStr("calculator"), Args22, VNone, VNone)
      [] text = Text(OutBothEmpty) ->
           Decoded("dict", {"final_answer", "action", "action_input"},
                   VStr(""), VStr("calculator"), Args22, VNone, VNone)
      [] text = Text(OutUnknown) ->
           Decoded("dict", {"action", "action_input"},
                   VNone, VStr("nosuch"), EmptyDict, VNone, VNone)
      [] text = Text(OutListName) ->
           Decoded("dict", {"action", "action_input"},
                   VNone, ListCalc, EmptyDict, VNone, VNone)
      [] text = Text(OutNullName) ->
           Decoded("dict", {"tool"}, VNone, VNone, VNone, VNone, VNone)
      [] text = Text(OutNotMap) ->
           Decoded("dict", {"action", "action_input"},
                   VNone, VStr("calculator"), List1, VNone, VNone)
      [] text = Text(OutMisfit) ->
           Decoded("dict", {"tool", "parameters"},
                   VNone, VNone, VNone, VStr("calculator"), ArgsX)
      [] text = Text(OutComplex) ->
           Decoded("dict", {"action", "action_input"},
                   VNone, VStr("calculator"), ArgsComplex, VNone, VNone)
      [] text = Text(OutJsonList) ->
           Decoded("list", {"tool", "calculator"}, VNone, VNone, VNone, VNone, VNone)
      [] text = Text(OutJsonString) ->   \* `k in data` is the substring test
           Decoded("str", {"use", "the", "tool"}, VNone, VNone, VNone, VNone, VNone)
      [] text = Text(OutJsonNull) ->
           Decoded("NoneType", {}, VNone, VNone, VNone, VNone, VNone)
      [] OTHER -> DecodeError   \* prose, or text around a fenced block

\* re.search(r'```json\s*(\{.*?\})\s*```', content, re.DOTALL), then
\* json.loads(match.group(1)) when there is a match
fence_loads(text) ==
    CASE text = Text(OutBothFenced) -> BothFencedObject
      [] text = Text(OutFlaky) -> FlakyObject
      [] text = Text(OutFencedBad) -> DecodeError
      [] OTHER -> NoMatch

(***************************************************************************)
(* Exceptions and call results: a call returns a value or raises.          *)
(***************************************************************************)
NoExc == [type |-> "", msg |-> ""]
Exc(type, msg) == [type |-> type, msg |-> msg]

(***************************************************************************)
(* The response parser.                                                    *)
(***************************************************************************)
\* `k in data` raises TypeError for these (caught by the parser)
NotIterable == {"int", "float", "bool", "NoneType"}

_extract_final_answer(content) ==
    LET m == fence_loads(content)
        d == json_loads(content)
    IN  IF m.kind = "dict" /\ "final_answer" \in m.has
        THEN m.final_answer
        ELSE IF d.kind = "dict" /\ "final_answer" \in d.has
        THEN d.final_answer
        ELSE VNone  \* no JSON, no key, or data["final_answer"] raised TypeError

\* what _parse_tool_call returns: None, a dict, or (the legacy branch's
\* `return data`) whatever json.loads gave
NoCall == [kind |-> "NoneType", has |-> {}, tool |-> VNone, parameters |-> VNone]
ReactCall(d) == [kind |-> "dict", has |-> {"tool", "parameters"},
                 tool |-> d.action, parameters |-> d.action_input]
LegacyCall(d) == [kind |-> d.kind, has |-> d.has,
                  tool |-> d.tool, parameters |-> d.parameters]

\* the decisions of _parse_tool_call: m is what the fenced block decodes
\* to, d what the whole content decodes to
tool_call_of(m, d) ==
    IF m.kind = "dict" /\ "final_answer" \in m.has THEN NoCall
    ELSE IF m.kind = "dict" /\ {"action", "action_input"} \subseteq m.has
    THEN ReactCall(m)
    ELSE IF m.kind = "dict" /\ "tool" \in m.has THEN LegacyCall(m)
    ELSE IF d.kind \in {"JSONDecodeError"} \cup NotIterable THEN NoCall
    ELSE IF "final_answer" \in d.has THEN NoCall
    ELSE IF {"action", "action_input"} \subseteq d.has
    THEN (IF d.kind = "dict" THEN ReactCall(d) ELSE NoCall)
    ELSE IF "tool" \in d.has THEN LegacyCall(d)
    ELSE NoCall

_parse_tool_call(content) == tool_call_of(fence_loads(content), json_loads(content))

\* tool_call.get(key, default) on a dict
CallGet(tool_call, key, default) ==
    IF key \notin tool_call.has THEN default
    ELSE IF key = "tool" THEN tool_call.tool
    ELSE tool_call.parameters

(***************************************************************************)
(* Tools.  "calculator" is CalculatorTool; "flaky" is a Tool subclass of   *)
(* the caller whose execute returns or raises as it pleases.               *)
(***************************************************************************)
ToolNames == {"calculator", "flaky"}

Returned(r) == [exc |-> NoExc, value |-> r]
Raised(type, msg) == [exc |-> Exc(type, msg), value |-> [success |-> FALSE]]

\* eval(expression, {"__builtins__": {}}, safe_dict)
Eval(expression) ==
    CASE expression = "2+2" -> Returned(VInt("4"))
      [] expression = "(-1)**0.5" -> Returned(VComplex("(6.123233995736766e-17+1j)"))
      [] OTHER -> Raised("SyntaxError", "invalid syntax")

\* CalculatorTool.execute(**parameters)
CalculatorTool_execute(parameters) ==
    IF parameters.j # "dict"
    THEN Raised("TypeError", "argument after ** must be a mapping, not " \o parameters.j)
    ELSE IF "expression" \notin parameters.keys
    THEN Raised("TypeError", "execute() missing 1 required positional argument: 'expression'")
    ELSE LET e == Eval(parameters.expression)
         IN  IF e.exc = NoExc
             THEN Returned([success |-> TRUE, result |-> e.value,
                            expression |-> parameters.expression])
             ELSE Returned([success |-> FALSE, error |-> e.exc.msg,
                            expression |-> parameters.expression])

FlakyOutcomes == {"returns", "raises"}

\* execute(**kwargs) of the caller's own tool; outcome is the tool's choice
FlakyTool_execute(parameters, outcome) ==
    IF parameters.j # "dict"
    THEN Raised("TypeError", "argument after ** must be a mapping, not " \o parameters.j)
    ELSE IF outcome = "raises"
    THEN Raised("RuntimeError", "boom")
    ELSE Returned([success |-> TRUE, result |-> VStr("ok")])

Tool_execute(name, parameters, outcome) ==
    IF name = "calculator" THEN CalculatorTool_execute(parameters)
    ELSE FlakyTool_execute(parameters, outcome)

\* json.dumps(tool_result, ensure_ascii=False): the text, or TypeError
ResultSerializable(r) == "result" \in DOMAIN r => Serializable(r.result)

json_dumps(r) ==
    CASE DOMAIN r = {"success", "error"} ->
           "{\"success\": false, \"error\": \"" \o r.error \o "\"}"
      [] DOMAIN r = {"success", "error", "expression"} ->
           "{\"success\": false, \"error\": \"" \o r.error
              \o "\", \"expression\": \"" \o r.expression \o "\"}"
      [] DOMAIN r = {"success", "result", "expression"} ->
           "{\"success\": true, \"result\": " \o r.result.json
              \o ", \"expression\": \"" \o r.expression \o "\"}"
      [] OTHER ->
           "{\"success\": true, \"result\": " \o r.result.json \o "}"

(***************************************************************************)
(* The Agent.  One record holds the instance (tools, system_prompt,        *)
(* memory_enabled, max_iterations, conversation_history, execution_log),   *)
(* the frame of its current run or run_stream call (pc, mode, task,        *)
(* context, messages, iteration, content, tool_call, events, result,       *)
(* raised, outcome) and what its completion client and tools saw of the    *)
(* call (calls, total_calls, sent, prepared, response, dispatches,         *)
(* tool_results, tool_raised).                                             *)
(***************************************************************************)
Msg(role, content) == [role |-> role, content |-> content]

\* no chat call made yet
NoResponse == [success |-> FALSE, stream |-> FALSE, error |-> "", chunks |-> <<"", "">>]

\* conversation_history[-10:]
HistoryWindow == 10

\* C21's mutant: the whole history is sent
LastN_all(h, n) == h

LastN(h, n) == IF Len(h) <= n THEN h ELSE SubSeq(h, Len(h) - n + 1, Len(h))

\* get_system_prompt(format_tools_description(tools), role, custom, use_react)
SystemPrompt(tools) ==
    IF tools = {"calculator"}
    THEN "REACT_SYSTEM_TEMPLATE: 1. **calculator**"
    ELSE "REACT_SYSTEM_TEMPLATE: 1. **calculator**\n\n2. **flaky**"

\* Agent.__init__
NewAgent(tools, memory_enabled, max_iterations) ==
    [tools |-> tools,
     system_prompt |-> SystemPrompt(tools),
     memory_enabled |-> memory_enabled,
     max_iterations |-> max_iterations,
     conversation_history |-> <<>>,
     execution_log |-> <<>>,
     pc |-> "idle", mode |-> "", task |-> "", context |-> VNone,
     messages |-> <<>>, iteration |-> 0,
     content |-> "", tool_call |-> NoCall, events |-> <<>>,
     result |-> VNone, raised |-> NoExc, outcome |-> "",
     calls |-> 0, total_calls |-> 0, sent |-> <<>>, prepared |-> <<>>,
     response |-> NoResponse,
     dispatches |-> 0, tool_results |-> <<>>, tool_raised |-> NoExc]

\* Agent._log_execution (the timestamp is left out)
_log_execution(log, event_type, data) ==
    Append(log, [event_type |-> event_type, data |-> data])

\* Agent._prepare_messages; context is a dict or None
_prepare_messages(a, task, context) ==
    LET system == <<Msg("system", a.system_prompt)>>
        memory == IF a.memory_enabled /\ a.conversation_history # <<>>
                  THEN LastN(a.conversation_history, HistoryWindow)
                  ELSE <<>>
        text == IF Truthy(context)
                THEN "Additional context: " \o context.json \o "\n\n" \o task
                ELSE task
    IN  system \o memory \o <<Msg("user", text)>>

\* str() of a tool result, as the execution log keeps it
ResultText(r) ==
    IF "result" \in DOMAIN r
    THEN "{'success': True, 'result': " \o r.result.str \o "}"
    ELSE "{'success': False, 'error': '" \o r.error \o "'}"

\* C8's mutant: a returned result is not logged
try_execute_unlogged(log, name, parameters, outcome) ==
    LET r == Tool_execute(name, parameters, outcome)
    IN  IF r.exc = NoExc
        THEN [log |-> log, value |-> r.value, tool_exc |-> NoExc, exc |-> NoExc]
        ELSE LET result == [success |-> FALSE, error |-> r.exc.msg]
             IN  [log |-> _log_execution(log, "tool_error", ResultText(result)),
                  value |-> result, tool_exc |-> r.exc, exc |-> NoExc]

\* C2's mutant: the except clause is missing, the tool's exception propagates
try_execute_uncaught(log, name, parameters, outcome) ==
    LET r == Tool_execute(name, parameters, outcome)
    IN  IF r.exc = NoExc
        THEN [log |-> _log_execution(log, "tool_result", ResultText(r.value)),
              value |-> r.value, tool_exc |-> NoExc, exc |-> NoExc]
        ELSE [log |-> log, value |-> [success |-> FALSE],
              tool_exc |-> r.exc, exc |-> r.exc]

\* the try/except of _execute_tool around tool.execute(**parameters)
try_execute(log, name, parameters, outcome) ==
    LET r == Tool_execute(name, parameters, outcome)
    IN  IF r.exc = NoExc
        THEN [log |-> _log_execution(log, "tool_result", ResultText(r.value)),
              value |-> r.value, tool_exc |-> NoExc, exc |-> NoExc]
        ELSE LET result == [success |-> FALSE, error |-> r.exc.msg]
             IN  [log |-> _log_execution(log, "tool_error", ResultText(result)),
                  value |-> result, tool_exc |-> r.exc, exc |-> NoExc]

\* Agent._execute_tool: the log it leaves, the result (value) or the exception
\* (exc) it ends with, and the exception the tool's execute raised (tool_exc)
_execute_tool(tools, log, tool_call, outcome) ==
    IF tool_call.kind # "dict"
    THEN [log |-> log, value |-> [success |-> FALSE], tool_exc |-> NoExc,
          exc |-> Exc("AttributeError",
                      "'" \o tool_call.kind \o "' object has no attribute 'get'")]
    ELSE
    LET tool_name == CallGet(tool_call, "tool", VNone)
        parameters == CallGet(tool_call, "parameters", EmptyDict)
        log1 == _log_execution(log, "tool_call",
                    "{'tool': " \o tool_name.str \o ", 'parameters': "
                       \o parameters.str \o "}")
    IN  IF ~Hashable(tool_name)
        THEN [log |-> log1, value |-> [success |-> FALSE], tool_exc |-> NoExc,
              exc |-> Exc("TypeError", "unhashable type: '" \o tool_name.j \o "'")]
        ELSE IF ~(tool_name.j = "str" /\ tool_name.str \in tools)
        THEN LET result == [success |-> FALSE,
                            error |-> "Tool '" \o tool_name.str \o "' not found"]
             IN  [log |-> _log_execution(log1, "tool_error", ResultText(result)),
                  value |-> result, tool_exc |-> NoExc, exc |-> NoExc]
        ELSE try_execute(log1, tool_name.str, parameters, outcome)

(***************************************************************************)
(* What LLMClient.chat returns to the agent: a failure result, or a        *)
(* success carrying the output whole (content) or as a stream of chunks.   *)
(***************************************************************************)
Failure(error) == [success |-> FALSE, stream |-> FALSE, error |-> error, chunks |-> <<"", "">>]
Content(o) == [success |-> TRUE, stream |-> FALSE, error |-> "", chunks |-> o]
Stream(o) == [success |-> TRUE, stream |-> TRUE, error |-> "", chunks |-> o]

Failures == {Failure("Max retries exceeded")}

\* chat(messages): stream=False always gives content
ChatResults == Failures \cup {Content(o) : o \in Outputs}
\* chat(messages, stream=True): a stream (OpenAI dialect) or content (Claude dialect)
ChatStreamResults == ChatResults \cup {Stream(o) : o \in Outputs}

MaxIterationsText == "Maximum iterations reached. Task may be incomplete."

\* the memory a finished exchange leaves: the task and the answer
Remember(a, answer) ==
    IF a.memory_enabled
    THEN a.conversation_history \o <<Msg("user", a.task), Msg("assistant", answer)>>
    ELSE a.conversation_history

\* C9's mutant: the memory_enabled test is missing
RememberStep_unguarded(a, content, observation) ==
    a.conversation_history \o <<Msg("assistant", content), Msg("user", observation)>>

\* the memory a tool call leaves: the raw output and the observation
RememberStep(a, content, observation) ==
    IF a.memory_enabled
    THEN a.conversation_history
            \o <<Msg("assistant", content), Msg("user", observation)>>
    ELSE a.conversation_history

(***************************************************************************)
(* Agent.run, in the steps of its loop.                                    *)
(***************************************************************************)
\* run(task, context) up to the loop: messages = _prepare_messages(...)
run(a, task, context) ==
    LET messages == _prepare_messages(a, task, context)
    IN  [a EXCEPT !.pc = "loop", !.mode = "run", !.task = task, !.context = context,
                  !.messages = messages, !.prepared = messages, !.iteration = 0,
                  !.content = "", !.tool_call = NoCall, !.events = <<>>,
                  !.result = VNone, !.raised = NoExc, !.outcome = "",
                  !.calls = 0, !.sent = <<>>, !.response = NoResponse,
                  !.dispatches = 0, !.tool_results = <<>>, !.tool_raised = NoExc]

\* C10's mutant: a failure result is logged and the loop goes on
run_iterate_retrying(a, response) ==
    LET a1 == [a EXCEPT !.iteration = @ + 1, !.calls = @ + 1,
                        !.total_calls = @ + 1, !.sent = a.messages,
                        !.response = response]
    IN  IF ~response.success
        THEN [a1 EXCEPT !.execution_log =
                            _log_execution(@, "error", "LLM API error: " \o response.error)]
        ELSE
        LET content == Text(response.chunks)
            log == _log_execution(a.execution_log, "llm_response", content)
            final_answer == _extract_final_answer(content)
            tool_call == _parse_tool_call(content)
        IN  IF Truthy(final_answer)
            THEN [a1 EXCEPT !.execution_log = log,
                            !.conversation_history = Remember(a, final_answer.str),
                            !.pc = "returned", !.outcome = "final_answer",
                            !.result = final_answer]
            ELSE IF tool_call.kind # "NoneType"
            THEN [a1 EXCEPT !.execution_log = log, !.content = content,
                            !.tool_call = tool_call, !.pc = "dispatch"]
            ELSE [a1 EXCEPT !.execution_log = log,
                            !.conversation_history = Remember(a, content),
                            !.pc = "returned", !.outcome = "response",
                            !.result = VStr(content)]

\* one pass of `while iteration < self.max_iterations` up to the tool call:
\* response is what self.llm_client.chat(messages) returns
run_iterate(a, response) ==
    LET a1 == [a EXCEPT !.iteration = @ + 1, !.calls = @ + 1,
                        !.total_calls = @ + 1, !.sent = a.messages,
                        !.response = response]
    IN  IF ~response.success
        THEN LET error_msg == "LLM API error: " \o response.error
             IN  [a1 EXCEPT !.execution_log = _log_execution(@, "error", error_msg),
                            !.pc = "returned", !.outcome = "error",
                            !.result = VStr(error_msg)]
        ELSE
        LET content == Text(response.chunks)
            log == _log_execution(a.execution_log, "llm_response", content)
            final_answer == _extract_final_answer(content)
            tool_call == _parse_tool_call(content)
        IN  IF Truthy(final_answer)
            THEN [a1 EXCEPT !.execution_log = log,
                            !.conversation_history = Remember(a, final_answer.str),
                            !.pc = "returned", !.outcome = "final_answer",
                            !.result = final_answer]
            ELSE IF tool_call.kind # "NoneType"
            THEN [a1 EXCEPT !.execution_log = log, !.content = content,
                            !.tool_call = tool_call, !.pc = "dispatch"]
            ELSE [a1 EXCEPT !.execution_log = log,
                            !.conversation_history = Remember(a, content),
                            !.pc = "returned", !.outcome = "response",
                            !.result = VStr(content)]

\* the `if tool_call:` branch: _execute_tool, then the two appends
run_dispatch(a, outcome) ==
    LET x == _execute_tool(a.tools, a.execution_log, a.tool_call, outcome)
        a1 == [a EXCEPT !.execution_log = x.log, !.dispatches = @ + 1,
                        !.tool_raised = x.tool_exc]
    IN  IF x.exc # NoExc
        THEN [a1 EXCEPT !.pc = "raised", !.raised = x.exc]
        ELSE
        LET a2 == [a1 EXCEPT !.tool_results = Append(@, x.value),
                             !.messages = Append(@, Msg("assistant", a.content))]
        IN  IF ~ResultSerializable(x.value)
            THEN [a2 EXCEPT !.pc = "raised",
                            !.raised = Exc("TypeError",
                                "Object of type " \o x.value.result.j
                                   \o " is not JSON serializable")]
            ELSE LET observation == "Observation: " \o json_dumps(x.value)
                 IN  [a2 EXCEPT !.messages = Append(@, Msg("user", observation)),
                                !.conversation_history =
                                    RememberStep(a, a.content, observation),
                                !.pc = "loop"]

\* C5's mutant: the loop ends and nothing is returned
run_exhausted_none(a) ==
    [a EXCEPT !.pc = "returned", !.outcome = "max_iterations", !.result = VNone]

\* the loop condition fails: return the sentinel
run_exhausted(a) ==
    [a EXCEPT !.pc = "returned", !.outcome = "max_iterations",
              !.result = VStr(MaxIterationsText)]

(***************************************************************************)
(* Agent.run_stream, in the same steps; events is what it has yielded.     *)
(* The texts of the source's events, written in ASCII:                     *)
(*   iteration       "[cycle] round N of reasoning..."                     *)
(*   thought_start   "[thought] thinking: "                                *)
(*   thought         "[thought] thought: <content>\n"                      *)
(*   tool_call       "[tool] calling tool: <name>\n   arguments: <json>\n" *)
(*   tool_result     "[chart] tool result: <json>\n"                       *)
(*   final_answer    "\n[ok] final answer: <answer>"                    *)
(*   max_iterations  "[warning] maximum number of iterations reached"      *)
(***************************************************************************)
Event(type, content) == [type |-> type, content |-> content]

FinalAnswerPrefix == "\n[ok] final answer: "
MaxIterationsEventText == "[warning] maximum number of iterations reached"

run_stream(a, task, context) ==
    LET messages == _prepare_messages(a, task, context)
    IN  [a EXCEPT !.pc = "loop", !.mode = "stream", !.task = task, !.context = context,
                  !.messages = messages, !.prepared = messages, !.iteration = 0,
                  !.content = "", !.tool_call = NoCall, !.events = <<>>,
                  !.result = VNone, !.raised = NoExc, !.outcome = "",
                  !.calls = 0, !.sent = <<>>, !.response = NoResponse,
                  !.dispatches = 0, !.tool_results = <<>>, !.tool_raised = NoExc]

\* response is what self.llm_client.chat(messages, stream=True) returns
run_stream_iterate(a, response) ==
    LET iteration == a.iteration + 1
        ev0 == Append(a.events,
                      [type |-> "iteration", iteration |-> iteration,
                       content |-> "[cycle] round " \o ToString(iteration)
                                      \o " of reasoning..."])
        a1 == [a EXCEPT !.iteration = iteration, !.calls = @ + 1,
                        !.total_calls = @ + 1, !.sent = a.messages,
                        !.response = response]
    IN  IF ~response.success
        THEN LET error_msg == "LLM API error: " \o response.error
             IN  [a1 EXCEPT !.events = Append(ev0, Event("error", error_msg)),
                            !.pc = "returned", !.outcome = "error"]
        ELSE
        LET full_content == IF response.stream
                            THEN ("" \o response.chunks[1]) \o response.chunks[2]
                            ELSE Text(response.chunks)
            ev1 == IF response.stream
                   THEN ev0 \o <<Event("thought_start", "[thought] thinking: "),
                                 Event("thought_chunk", response.chunks[1]),
                                 Event("thought_chunk", response.chunks[2]),
                                 Event("thought_end", "\n")>>
                   ELSE Append(ev0, Event("thought",
                                   "[thought] thought: " \o full_content \o "\n"))
            log == _log_execution(a.execution_log, "llm_response", full_content)
            final_answer == _extract_final_answer(full_content)
            tool_call == _parse_tool_call(full_content)
        IN  IF Truthy(final_answer)
            THEN [a1 EXCEPT !.execution_log = log,
                            !.conversation_history = Remember(a, final_answer.str),
                            !.events = Append(ev1, Event("final_answer",
                                           FinalAnswerPrefix \o final_answer.str)),
                            !.pc = "returned", !.outcome = "final_answer"]
            ELSE IF tool_call.kind # "NoneType"
            THEN [a1 EXCEPT !.execution_log = log, !.events = ev1,
                            !.content = full_content,
                            !.tool_call = tool_call, !.pc = "dispatch"]
            ELSE [a1 EXCEPT !.execution_log = log,
                            !.conversation_history = Remember(a, full_content),
                            !.events = Append(ev1, Event("response", full_content)),
                            !.pc = "returned", !.outcome = "response"]

run_stream_dispatch(a, outcome) ==
    IF a.tool_call.kind # "dict"
    THEN [a EXCEPT !.pc = "raised", !.tool_raised = NoExc,
                   !.raised = Exc("AttributeError",
                       "'" \o a.tool_call.kind \o "' object has no attribute 'get'")]
    ELSE
    LET tool_name == CallGet(a.tool_call, "tool", VStr("unknown"))
        params == CallGet(a.tool_call, "parameters", EmptyDict)
        ev0 == Append(a.events, Event("tool_call",
                   "[tool] calling tool: " \o tool_name.str
                      \o "\n   arguments: " \o params.json \o "\n"))
        x == _execute_tool(a.tools, a.execution_log, a.tool_call, outcome)
        a1 == [a EXCEPT !.execution_log = x.log, !.dispatches = @ + 1,
                        !.tool_raised = x.tool_exc, !.events = ev0]
    IN  IF x.exc # NoExc
        THEN [a1 EXCEPT !.pc = "raised", !.raised = x.exc]
        ELSE
        LET a2 == [a1 EXCEPT !.tool_results = Append(@, x.value)]
        IN  IF ~ResultSerializable(x.value)
            THEN [a2 EXCEPT !.pc = "raised",
                            !.raised = Exc("TypeError",
                                "Object of type " \o x.value.result.j
                                   \o " is not JSON serializable")]
            ELSE LET dumped == json_dumps(x.value)
                     observation == "Observation: " \o dumped
                 IN  [a2 EXCEPT !.events = Append(ev0, Event("tool_result",
                                        "[chart] tool result: " \o dumped \o "\n")),
                                !.messages = @ \o <<Msg("assistant", a.content),
                                                    Msg("user", observation)>>,
                                !.conversation_history =
                                    RememberStep(a, a.content, observation),
                                !.pc = "loop"]

run_stream_exhausted(a) ==
    [a EXCEPT !.events = Append(@, Event("max_iterations", MaxIterationsEventText)),
              !.pc = "returned", !.outcome = "max_iterations"]

(***************************************************************************)
(* The specification of one agent: its caller starts run or run_stream     *)
(* when no call is in progress; the completion client and the tools        *)
(* answer as they please.                                                  *)
(***************************************************************************)
ToolSets == {{"calculator"}, {"calculator", "flaky"}}

Context4 == VDict("{\"previous_result\": \"4\"}", "{'previous_result': '4'}",
                  {"previous_result"}, "")

\* what a caller passes to run / run_stream
Calls == {[task |-> "Calculate 2+2", context |-> VNone],
          [task |-> "Summarize the report", context |-> Context4]}

Idle(a) == a.pc \in {"idle", "returned", "raised"}

\* the calls left of MaxCalls cover a whole run
Affordable(a) == a.total_calls + a.max_iterations <= MaxCalls

NoOrch == [pc |-> "idle"]

\* no completion client under study
NoClient == [pc |-> "idle"]

InitAgent ==
    /\ agent \in {NewAgent(t, m, n) : t \in ToolSets, m \in BOOLEAN, n \in 0..MaxIterCap}
    /\ twin = NewAgent({"calculator"}, FALSE, 0)
    /\ orch = NoOrch
    /\ client = NoClient

Run ==
    /\ Idle(agent) /\ Affordable(agent)
    /\ \E c \in Calls : agent' = run(agent, c.task, c.context)
    /\ UNCHANGED <<twin, orch, client>>

RunIterate ==
    /\ agent.mode = "run" /\ agent.pc = "loop"
    /\ agent.iteration < agent.max_iterations
    /\ \E response \in ChatResults : agent' = run_iterate(agent, response)
    /\ UNCHANGED <<twin, orch, client>>

RunDispatch ==
    /\ agent.mode = "run" /\ agent.pc = "dispatch"
    /\ \E outcome \in FlakyOutcomes : agent' = run_dispatch(agent, outcome)
    /\ UNCHANGED <<twin, orch, client>>

RunExhausted ==
    /\ agent.mode = "run" /\ agent.pc = "loop"
    /\ ~(agent.iteration < agent.max_iterations)
    /\ agent' = run_exhausted(agent)
    /\ UNCHANGED <<twin, orch, client>>

RunStream ==
    /\ Idle(agent) /\ Affordable(agent)
    /\ \E c \in Calls : agent' = run_stream(agent, c.task, c.context)
    /\ UNCHANGED <<twin, orch, client>>

StreamIterate ==
    /\ agent.mode = "stream" /\ agent.pc = "loop"
    /\ agent.iteration < agent.max_iterations
    /\ \E response \in ChatStreamResults : agent' = run_stream_iterate(agent, response)
    /\ UNCHANGED <<twin, orch, client>>

StreamDispatch ==
    /\ agent.mode = "stream" /\ agent.pc = "dispatch"
    /\ \E outcome \in FlakyOutcomes : agent' = run_stream_dispatch(agent, outcome)
    /\ UNCHANGED <<twin, orch, client>>

StreamExhausted ==
    /\ agent.mode = "stream" /\ agent.pc = "loop"
    /\ ~(agent.iteration < agent.max_iterations)
    /\ agent' = run_stream_exhausted(agent)
    /\ UNCHANGED <<twin, orch, client>>

Next ==
    \/ Run \/ RunIterate \/ RunDispatch \/ RunExhausted
    \/ RunStream \/ StreamIterate \/ StreamDispatch \/ StreamExhausted

Init == InitAgent

Spec == Init /\ [][Next]_vars

(***************************************************************************)
(* Blocking and incremental mode side by side: agent is driven by run,     *)
(* twin by run_stream, from the same configuration, with the same task,    *)
(* the same model outputs and the same tool behaviour at every step.       *)
(***************************************************************************)
\* the two chat results carry the same outcome of the completion client
SameChat(r, rs) ==
    /\ r.success = rs.success
    /\ r.error = rs.error
    /\ r.chunks = rs.chunks

InitTwin ==
    /\ agent \in {NewAgent(t, m, n) : t \in ToolSets, m \in BOOLEAN, n \in 0..MaxIterCap}
    /\ twin = agent
    /\ orch = NoOrch
    /\ client = NoClient

TwinRun ==
    /\ Idle(agent) /\ Idle(twin) /\ Affordable(agent)
    /\ \E c \in Calls :
          /\ agent' = run(agent, c.task, c.context)
          /\ twin' = run_stream(twin, c.task, c.context)
    /\ UNCHANGED <<orch, client>>

TwinIterate ==
    /\ agent.pc = "loop" /\ agent.iteration < agent.max_iterations
    /\ twin.pc = "loop" /\ twin.iteration < twin.max_iterations
    /\ \E r \in ChatResults, rs \in ChatStreamResults :
          /\ SameChat(r, rs)
          /\ agent' = run_iterate(agent, r)
          /\ twin' = run_stream_iterate(twin, rs)
    /\ UNCHANGED <<orch, client>>

TwinDispatch ==
    /\ agent.pc = "dispatch" /\ twin.pc = "dispatch"
    /\ \E outcome \in FlakyOutcomes :
          /\ agent' = run_dispatch(agent, outcome)
          /\ twin' = run_stream_dispatch(twin, outcome)
    /\ UNCHANGED <<orch, client>>

TwinExhausted ==
    /\ agent.pc = "loop" /\ ~(agent.iteration < agent.max_iterations)
    /\ twin.pc = "loop" /\ ~(twin.iteration < twin.max_iterations)
    /\ agent' = run_exhausted(agent)
    /\ twin' = run_stream_exhausted(twin)
    /\ UNCHANGED <<orch, client>>

NextTwin == TwinRun \/ TwinIterate \/ TwinDispatch \/ TwinExhausted

SpecTwin == InitTwin /\ [][NextTwin]_vars

(***************************************************************************)
(* ParallelOrchestrator.  orch is the orchestrator and the call of its run *)
(* in progress.  An agent is known by its name; the run of an agent is     *)
(* seen from outside: it returns a string or raises.                       *)
(*   status[n]   "queued"   submitted, waiting for a worker of the pool    *)
(*               "running"  agent.run is executing in a worker             *)
(*               "done"     its future is complete                         *)
(*               "seen"     as_completed has yielded its future            *)
(***************************************************************************)
DefaultMaxWorkers == 3

AgentName(i) == "agent" \o ToString(i)

\* what agent.run(task, context) can do
AgentRunOutcomes(name) ==
    {[exc |-> NoExc, value |-> VStr("answer of " \o name)],
     [exc |-> Exc("RuntimeError", name \o " failed"), value |-> VNone]}

\* Orchestrator._log_execution
Orchestrator_log_execution(history, agent_name, result) ==
    Append(history, [agent |-> agent_name, result |-> result])

\* ParallelOrchestrator(agents, max_workers)
ParallelOrchestrator(agents, max_workers) ==
    [pc |-> "idle", agents |-> agents, max_workers |-> max_workers,
     execution_history |-> <<>>,
     status |-> [n \in {} |-> ""], future |-> [n \in {} |-> NoExc],
     results |-> [n \in {} |-> VNone], raised |-> NoExc]

Names(o) == {o.agents[i] : i \in 1..Len(o.agents)}

Running(o) == {n \in DOMAIN o.status : o.status[n] = "running"}

\* results = {}; every agent.run is submitted to the executor
ParallelOrchestrator_run(o) ==
    [o EXCEPT !.pc = "collecting",
              !.status = [n \in Names(o) |-> "queued"],
              !.future = [n \in Names(o) |-> [exc |-> NoExc, value |-> VNone]],
              !.results = [n \in {} |-> VNone],
              !.raised = NoExc]

\* C6's mutant: the body of the for loop without its except clause
collect_uncaught(o, name) ==
    LET f == o.future[name]
        o1 == [o EXCEPT !.status[name] = "seen"]
    IN  IF f.exc = NoExc
        THEN [o1 EXCEPT !.results = (name :> f.value) @@ @,
                        !.execution_history =
                            Orchestrator_log_execution(@, name, f.value)]
        ELSE [o1 EXCEPT !.pc = "raised", !.raised = f.exc]

\* the body of `for future in as_completed(future_to_agent)`
collect(o, name) ==
    LET f == o.future[name]
        o1 == [o EXCEPT !.status[name] = "seen"]
    IN  IF f.exc = NoExc
        THEN [o1 EXCEPT !.results = (name :> f.value) @@ @,
                        !.execution_history =
                            Orchestrator_log_execution(@, name, f.value)]
        ELSE LET error_msg == VStr("Error: " \o f.exc.msg)
             IN  [o1 EXCEPT !.results = (name :> error_msg) @@ @,
                            !.execution_history =
                                Orchestrator_log_execution(@, name, error_msg)]

InitPar ==
    /\ agent = NewAgent({"calculator"}, FALSE, 0)
    /\ twin = agent
    /\ client = NoClient
    /\ orch \in {ParallelOrchestrator([i \in 1..k |-> AgentName(i)], w) :
                    k \in 0..MaxAgents, w \in 1..DefaultMaxWorkers}

ParRun ==
    /\ orch.pc = "idle"
    /\ orch' = ParallelOrchestrator_run(orch)
    /\ UNCHANGED <<agent, twin, client>>

\* C18's mutant: a thread per submitted call, no pool of max_workers
ParStart_unbounded ==
    /\ orch.pc = "collecting"
    /\ \E i \in 1..Len(orch.agents) :
          /\ orch.status[orch.agents[i]] = "queued"
          /\ \A j \in 1..(i - 1) : orch.status[orch.agents[j]] # "queued"
          /\ orch' = [orch EXCEPT !.status[orch.agents[i]] = "running"]
    /\ UNCHANGED <<agent, twin, client>>

\* ThreadPoolExecutor(max_workers=self.max_workers): a free worker of the
\* pool takes the oldest submitted call
ParStart ==
    /\ orch.pc = "collecting"
    /\ Cardinality(Running(orch)) < orch.max_workers
    /\ \E i \in 1..Len(orch.agents) :
          /\ orch.status[orch.agents[i]] = "queued"
          /\ \A j \in 1..(i - 1) : orch.status[orch.agents[j]] # "queued"
          /\ orch' = [orch EXCEPT !.status[orch.agents[i]] = "running"]
    /\ UNCHANGED <<agent, twin, client>>

\* an agent's run ends in its worker; the future holds what it did
ParFinish ==
    /\ orch.pc = "collecting"
    /\ \E n \in Running(orch) : \E f \in AgentRunOutcomes(n) :
          orch' = [orch EXCEPT !.status[n] = "done", !.future[n] = f]
    /\ UNCHANGED <<agent, twin, client>>

\* as_completed yields a complete future
ParCollect ==
    /\ orch.pc = "collecting"
    /\ \E n \in DOMAIN orch.status :
          /\ orch.status[n] = "done"
          /\ orch' = collect(orch, n)
    /\ UNCHANGED <<agent, twin, client>>

\* every future was yielded; the executor shuts down; return results
ParReturn ==
    /\ orch.pc = "collecting"
    /\ \A n \in DOMAIN orch.status : orch.status[n] = "seen"
    /\ orch' = [orch EXCEPT !.pc = "returned"]
    /\ UNCHANGED <<agent, twin, client>>

NextPar == ParRun \/ ParStart \/ ParFinish \/ ParCollect \/ ParReturn

SpecPar == InitPar /\ [][NextPar]_vars

(***************************************************************************)
(* LLMClient.  client is the client and the chat call in progress.  One    *)
(* attempt is one requests.post with what follows it inside the try: the   *)
(* HTTP exchange raises a transport exception, answers an error status, or *)
(* answers 200 with a body.                                                *)
(***************************************************************************)
\* the bodies of a 200 answer
\*   json      what response.json() gives: "dict", "NoneType", or "invalid"
\*   usage     tokens the "usage" entry counts, -1 when there is no entry
\*   content   TRUE when the path to the completion text exists
BodyGood == [json |-> "dict", usage |-> 7, content |-> TRUE]
BodyNoUsage == [json |-> "dict", usage |-> -1, content |-> TRUE]
BodyNoChoices == [json |-> "dict", usage |-> 5, content |-> FALSE]
BodyNull == [json |-> "NoneType", usage |-> -1, content |-> FALSE]
BodyNotJson == [json |-> "invalid", usage |-> -1, content |-> FALSE]

Bodies == {BodyGood, BodyNoUsage, BodyNoChoices, BodyNull, BodyNotJson}

HttpOutcomes ==
    {[kind |-> "transport", text |-> "Connection refused", body |-> BodyNull],
     [kind |-> "status", text |-> "500 Server Error", body |-> BodyNull]}
    \cup {[kind |-> "ok", text |-> "", body |-> b] : b \in Bodies}

\* LLMClient(api_url, api_key, max_retries=..., api_type=...)
LLMClient(api_type, max_retries) ==
    [pc |-> "idle", api_type |-> api_type, max_retries |-> max_retries,
     request_count |-> 0, total_tokens |-> 0,
     stream |-> FALSE, attempt |-> 0, posts |-> 0, slept |-> <<>>,
     result |-> NoResponse, raised |-> NoExc,
     chats |-> 0, count0 |-> 0, tokens0 |-> 0]

\* LLMClient.chat up to the first attempt; count0/tokens0 keep the counters
\* as they were before the call
chat(c, stream) ==
    [c EXCEPT !.pc = "attempt", !.stream = stream, !.attempt = 0, !.posts = 0,
              !.slept = <<>>, !.result = NoResponse, !.raised = NoExc,
              !.chats = @ + 1, !.count0 = c.request_count,
              !.tokens0 = c.total_tokens]

\* except requests.exceptions.RequestException as e
caught(c, text) ==
    IF c.attempt = c.max_retries - 1
    THEN [c EXCEPT !.pc = "returned", !.result = Failure(text)]
    ELSE [c EXCEPT !.slept = Append(@, 2 ^ c.attempt), !.attempt = @ + 1]

\* an exception the except clause does not name
uncaught(c, type, msg) == [c EXCEPT !.pc = "raised", !.raised = Exc(type, msg)]

\* what follows response.raise_for_status() when response.json() returned:
\* key is the entry the completion text is read from
after_json(c, body, key) ==
    LET c1 == [c EXCEPT !.request_count = @ + 1]
    IN  IF body.json = "NoneType"
        THEN uncaught(c1, "TypeError", "argument of type 'NoneType' is not iterable")
        ELSE LET c2 == IF body.usage >= 0
                       THEN [c1 EXCEPT !.total_tokens = @ + body.usage]
                       ELSE c1
             IN  IF body.content
                 THEN [c2 EXCEPT !.pc = "returned", !.result = Content(OutFinal)]
                 ELSE uncaught(c2, "KeyError", "'" \o key \o "'")

\* one pass of the for loop of _openai_chat; subclassed tells whether the
\* JSONDecodeError of response.json() is a RequestException (requests >= 2.27)
_openai_chat(c, h, subclassed) ==
    LET c1 == [c EXCEPT !.posts = @ + 1]
    IN  IF h.kind \in {"transport", "status"} THEN caught(c1, h.text)
        ELSE IF c.stream
        THEN [c1 EXCEPT !.pc = "returned", !.result = Stream(OutFinal)]
        ELSE IF h.body.json = "invalid"
        THEN IF subclassed THEN caught(c1, "Expecting value")
             ELSE uncaught(c1, "ValueError", "Expecting value")
        ELSE after_json(c1, h.body, "choices")

\* one pass of the for loop of _claude_chat
_claude_chat(c, h, subclassed) ==
    LET c1 == [c EXCEPT !.posts = @ + 1]
    IN  IF h.kind \in {"transport", "status"} THEN caught(c1, h.text)
        ELSE IF h.body.json = "invalid"
        THEN IF subclassed THEN caught(c1, "Expecting value")
             ELSE uncaught(c1, "ValueError", "Expecting value")
        ELSE after_json(c1, h.body, "content")

ApiTypes == {"openai", "claude", "custom"}

InitClient ==
    /\ agent = NewAgent({"calculator"}, FALSE, 0)
    /\ twin = agent
    /\ orch = NoOrch
    /\ client \in {LLMClient(t, n) : t \in ApiTypes, n \in 0..MaxRetries}

Chat ==
    /\ client.pc \in {"idle", "returned", "raised"}
    /\ client.chats < MaxChats
    /\ \E stream \in BOOLEAN : client' = chat(client, stream)
    /\ UNCHANGED <<agent, twin, orch>>

ChatAttempt ==
    /\ client.pc = "attempt"
    /\ client.attempt < client.max_retries
    /\ \E h \in HttpOutcomes, subclassed \in BOOLEAN :
          client' = IF client.api_type = "claude"
                    THEN _claude_chat(client, h, subclassed)
                    ELSE _openai_chat(client, h, subclassed)
    /\ UNCHANGED <<agent, twin, orch>>

\* the for loop ends without a return
ChatExhausted ==
    /\ client.pc = "attempt"
    /\ ~(client.attempt < client.max_retries)
    /\ client' = [client EXCEPT !.pc = "returned",
                                !.result = Failure("Max retries exceeded")]
    /\ UNCHANGED <<agent, twin, orch>>

NextClient == Chat \/ ChatAttempt \/ ChatExhausted

SpecClient == InitClient /\ [][NextClient]_vars

(***************************************************************************)
(* The orchestrators that run their agents one after another.  orch is the *)
(* orchestrator and the call of its run in progress:                       *)
(*   runs               the agent.run calls made so far in this call, each *)
(*                      with the task and the context it was given         *)
(*   context            the caller's context object as it is now           *)
(*   execution_history  Orchestrator.execution_history                     *)
(* A context is None or a dict (a function from keys to values); an agent  *)
(* is known by its name and its run returns a string or raises.            *)
(***************************************************************************)
NoContext == [none |-> TRUE, d |-> <<>>]
Dict(d) == [none |-> FALSE, d |-> d]

\* bool(context)
TruthyContext(c) == ~c.none /\ DOMAIN c.d # {}

\* c[key] = value
SetItem(c, key, value) == Dict((key :> value) @@ c.d)

Contexts == {NoContext, Dict(<<>>), Dict("topic" :> VStr("arithmetic"))}

Tasks == {"Calculate 2+2", "Summarize the report"}

\* what one call of agent.run can do: the agent's answer is one of two
\* texts, or the run raises
RunOutcomes(name) ==
    {[exc |-> NoExc, value |-> VStr(t \o " by " \o name)] : t \in {"draft", "report"}}
    \cup {[exc |-> Exc("RuntimeError", name \o " failed"), value |-> VNone]}

\* Orchestrator.__init__ and the fields its subclasses add
Orchestrator(kind, agents, manager, router, default_agent) ==
    [kind |-> kind, pc |-> "idle", agents |-> agents, manager |-> manager,
     router |-> router, default_agent |-> default_agent,
     execution_history |-> <<>>,
     task |-> "", context |-> NoContext, current_task |-> "",
     current_context |-> NoContext, aliased |-> FALSE, i |-> 0,
     runs |-> <<>>, plan |-> VNone, worker_results |-> <<>>,
     selected_name |-> "", result |-> VNone, raised |-> NoExc,
     calls |-> 0, history0 |-> 0, passed |-> NoContext]

\* the frame of a call of run(task, context)
Frame(o, task, context) ==
    [o EXCEPT !.pc = "running", !.task = task, !.context = context,
              !.current_task = "", !.current_context = NoContext,
              !.aliased = FALSE, !.i = 0, !.runs = <<>>, !.plan = VNone,
              !.worker_results = <<>>, !.selected_name = "",
              !.result = VNone, !.raised = NoExc, !.calls = @ + 1,
              !.history0 = Len(o.execution_history),
              !.passed = context]

\* agent.run(task, context) is called and does f: runs records the call
Called(o, name, task, context, f) ==
    [o EXCEPT !.runs = Append(@, [agent |-> name, task |-> task, context |-> context,
                                  exc |-> f.exc, value |-> f.value])]

\* an exception of a sub-run that nothing catches leaves run
Propagate(o, exc) == [o EXCEPT !.pc = "raised", !.raised = exc]

\* SequentialOrchestrator.run up to the loop
SequentialOrchestrator_run(o, task, context) ==
    [Frame(o, task, context) EXCEPT
        !.current_task = task,
        !.aliased = TruthyContext(context),
        !.current_context = IF TruthyContext(context) THEN context ELSE Dict(<<>>)]

\* C15's mutant: the sub-run's exception is caught and recorded as a result
sequential_agent_catching(o, f) ==
    LET name == o.agents[o.i + 1]
        o1 == Called(o, name, o.current_task, o.current_context, f)
        result == IF f.exc # NoExc THEN VStr("Error: " \o f.exc.msg) ELSE f.value
        ctx == SetItem(o.current_context, "previous_result", result)
    IN  [o1 EXCEPT !.i = @ + 1, !.result = result,
                   !.execution_history = Orchestrator_log_execution(@, name, result),
                   !.current_context = ctx,
                   !.context = IF o.aliased THEN ctx ELSE @,
                   !.current_task =
                       "Based on the previous result, continue with: " \o o.task]

\* C14's mutant: the next agent is given the original task again
sequential_agent_same_task(o, f) ==
    LET name == o.agents[o.i + 1]
        o1 == Called(o, name, o.current_task, o.current_context, f)
    IN  IF f.exc # NoExc THEN Propagate(o1, f.exc)
        ELSE LET ctx == SetItem(o.current_context, "previous_result", f.value)
             IN  [o1 EXCEPT !.i = @ + 1, !.result = f.value,
                            !.execution_history =
                                Orchestrator_log_execution(@, name, f.value),
                            !.current_context = ctx,
                            !.context = IF o.aliased THEN ctx ELSE @]

\* C24's mutant: the follow-up text is built on the evolving task text
sequential_agent_nested(o, f) ==
    LET name == o.agents[o.i + 1]
        o1 == Called(o, name, o.current_task, o.current_context, f)
    IN  IF f.exc # NoExc THEN Propagate(o1, f.exc)
        ELSE LET ctx == SetItem(o.current_context, "previous_result", f.value)
             IN  [o1 EXCEPT !.i = @ + 1, !.result = f.value,
                            !.execution_history =
                                Orchestrator_log_execution(@, name, f.value),
                            !.current_context = ctx,
                            !.context = IF o.aliased THEN ctx ELSE @,
                            !.current_task =
                                "Based on the previous result, continue with: "
                                   \o o.current_task]

\* the body of `for agent in self.agents`; f is what agent.run does
sequential_agent(o, f) ==
    LET name == o.agents[o.i + 1]
        o1 == Called(o, name, o.current_task, o.current_context, f)
    IN  IF f.exc # NoExc THEN Propagate(o1, f.exc)
        ELSE LET ctx == SetItem(o.current_context, "previous_result", f.value)
             IN  [o1 EXCEPT !.i = @ + 1, !.result = f.value,
                            !.execution_history =
                                Orchestrator_log_execution(@, name, f.value),
                            !.current_context = ctx,
                            !.context = IF o.aliased THEN ctx ELSE @,
                            !.current_task =
                                "Based on the previous result, continue with: "
                                   \o o.task]

\* `return result`: result is unbound when the loop never ran
sequential_return(o) ==
    IF Len(o.agents) = 0
    THEN Propagate(o, Exc("UnboundLocalError",
                          "local variable 'result' referenced before assignment"))
    ELSE [o EXCEPT !.pc = "returned"]

OrchIdle(o) == o.pc \in {"idle", "returned", "raised"} /\ o.calls < MaxOrchRuns

SeqRun ==
    /\ orch.kind = "sequential" /\ OrchIdle(orch)
    /\ \E task \in Tasks, context \in Contexts :
          orch' = SequentialOrchestrator_run(orch, task, context)
    /\ UNCHANGED <<agent, twin, client>>

SeqAgent ==
    /\ orch.kind = "sequential" /\ orch.pc = "running"
    /\ orch.i < Len(orch.agents)
    /\ \E f \in RunOutcomes(orch.agents[orch.i + 1]) :
          orch' = sequential_agent(orch, f)
    /\ UNCHANGED <<agent, twin, client>>

SeqReturn ==
    /\ orch.kind = "sequential" /\ orch.pc = "running"
    /\ ~(orch.i < Len(orch.agents))
    /\ orch' = sequential_return(orch)
    /\ UNCHANGED <<agent, twin, client>>

\* ', '.join(names)
RECURSIVE Join(_)
Join(names) ==
    IF names = <<>> THEN ""
    ELSE IF Len(names) = 1 THEN names[1]
    ELSE names[1] \o ", " \o Join(Tail(names))

\* HierarchicalOrchestrator: self.agents is [manager] + workers, self.workers
\* maps each worker's name to the worker
Workers(o) == Tail(o.agents)

\* HierarchicalOrchestrator._format_results
RECURSIVE _format_results(_)
_format_results(results) ==
    IF results = <<>> THEN ""
    ELSE LET line == results[1].name \o ":\n" \o results[1].result.str \o "\n"
         IN  IF Len(results) = 1 THEN line
             ELSE line \o "\n" \o _format_results(Tail(results))

manager_prompt(o) ==
    "Task: " \o o.task \o "\n\nAvailable workers: " \o Join(Workers(o))
       \o "\n\nAs the manager, plan how to break down this task and delegate to workers.\n"
       \o "Respond with your plan and the subtask for each worker.\n"

subtask(o) ==
    "Based on the manager's plan:\n" \o o.plan.str
       \o "\n\nComplete your part of the task: " \o o.task

final_prompt(o) ==
    "Original task: " \o o.task \o "\n\nYour plan: " \o o.plan.str
       \o "\n\nWorker results:\n" \o _format_results(o.worker_results)
       \o "\n\nSynthesize the final response based on all worker outputs.\n"

\* HierarchicalOrchestrator.run up to the first run of the manager
HierarchicalOrchestrator_run(o, task, context) ==
    LET base == IF TruthyContext(context) THEN context ELSE Dict(<<>>)
        ctx == SetItem(base, "available_workers",
                       [j |-> "list", json |-> "", str |-> Join(Workers(o)),
                        keys |-> {}, expression |-> ""])
    IN  [Frame(o, task, context) EXCEPT
            !.pc = "plan",
            !.aliased = TruthyContext(context),
            !.current_context = ctx,
            !.context = IF TruthyContext(context) THEN ctx ELSE @]

\* plan = self.manager.run(manager_prompt, context)
hierarchical_plan(o, f) ==
    LET o1 == Called(o, o.manager, manager_prompt(o), o.current_context, f)
    IN  IF f.exc # NoExc THEN Propagate(o1, f.exc)
        ELSE [o1 EXCEPT !.plan = f.value, !.pc = "workers",
                        !.execution_history =
                            Orchestrator_log_execution(@, o.manager, f.value)]

\* C16's mutant: the worker is given the task without the plan
hierarchical_worker_unplanned(o, f) ==
    LET worker_name == Workers(o)[o.i + 1]
        o1 == Called(o, worker_name, o.task, o.current_context, f)
    IN  IF f.exc # NoExc THEN Propagate(o1, f.exc)
        ELSE [o1 EXCEPT !.i = @ + 1,
                        !.worker_results =
                            Append(@, [name |-> worker_name, result |-> f.value]),
                        !.execution_history =
                            Orchestrator_log_execution(@, worker_name, f.value)]

\* the body of `for worker_name, worker in self.workers.items()`
hierarchical_worker(o, f) ==
    LET worker_name == Workers(o)[o.i + 1]
        o1 == Called(o, worker_name, subtask(o), o.current_context, f)
    IN  IF f.exc # NoExc THEN Propagate(o1, f.exc)
        ELSE [o1 EXCEPT !.i = @ + 1,
                        !.worker_results =
                            Append(@, [name |-> worker_name, result |-> f.value]),
                        !.execution_history =
                            Orchestrator_log_execution(@, worker_name, f.value)]

\* final_result = self.manager.run(final_prompt, context); return final_result
hierarchical_final(o, f) ==
    LET o1 == Called(o, o.manager, final_prompt(o), o.current_context, f)
    IN  IF f.exc # NoExc THEN Propagate(o1, f.exc)
        ELSE [o1 EXCEPT !.result = f.value, !.pc = "returned",
                        !.execution_history =
                            Orchestrator_log_execution(@, o.manager \o " (final)",
                                                       f.value)]

HierRun ==
    /\ orch.kind = "hierarchical" /\ OrchIdle(orch)
    /\ \E task \in Tasks, context \in Contexts :
          orch' = HierarchicalOrchestrator_run(orch, task, context)
    /\ UNCHANGED <<agent, twin, client>>

HierPlan ==
    /\ orch.kind = "hierarchical" /\ orch.pc = "plan"
    /\ \E f \in RunOutcomes(orch.manager) : orch' = hierarchical_plan(orch, f)
    /\ UNCHANGED <<agent, twin, client>>

HierWorker ==
    /\ orch.kind = "hierarchical" /\ orch.pc = "workers"
    /\ orch.i < Len(Workers(orch))
    /\ \E f \in RunOutcomes(Workers(orch)[orch.i + 1]) :
          orch' = hierarchical_worker(orch, f)
    /\ UNCHANGED <<agent, twin, client>>

HierFinal ==
    /\ orch.kind = "hierarchical" /\ orch.pc = "workers"
    /\ ~(orch.i < Len(Workers(orch)))
    /\ \E f \in RunOutcomes(orch.manager) : orch' = hierarchical_final(orch, f)
    /\ UNCHANGED <<agent, twin, client>>

\* ConditionalOrchestrator: self.agents maps candidate names to agents (the
\* sequence keeps the mapping order); default_agent is a name, "" for None
routing_prompt(o) ==
    "Task: " \o o.task \o "\n\nAvailable agents: " \o Join(o.agents)
       \o "\n\nWhich agent should handle this task? Respond with just the agent name.\n"

\* a text as the router may pad it with white space
Padded(t) == {t, "  " \o t \o "\n"}

\* what the router's run can do
RouterOutcomes(o) ==
    {[exc |-> NoExc, value |-> VStr(p)] :
        p \in UNION {Padded(t) : t \in {o.agents[1], o.agents[Len(o.agents)],
                                        "nobody"}}}
    \cup {[exc |-> Exc("RuntimeError", o.router \o " failed"), value |-> VNone]}

\* str.strip
strip(text) ==
    IF \E n \in 1..MaxAgents : text = "  " \o AgentName(n) \o "\n"
    THEN AgentName(CHOOSE n \in 1..MaxAgents : text = "  " \o AgentName(n) \o "\n")
    ELSE IF text = "  nobody\n" THEN "nobody"
    ELSE text

InAgents(o, name) == \E k \in 1..Len(o.agents) : o.agents[k] = name

\* ConditionalOrchestrator.run up to the run of the router
ConditionalOrchestrator_run(o, task, context) ==
    [Frame(o, task, context) EXCEPT !.pc = "route", !.current_context = context]

\* C17's mutant: the router's text is used as it is
conditional_route_untrimmed(o, f) ==
    LET o1 == Called(o, o.router, routing_prompt(o), o.current_context, f)
    IN  IF f.exc # NoExc THEN Propagate(o1, f.exc)
        ELSE LET selected_name == f.value.str
             IN  [o1 EXCEPT !.pc = "selected",
                            !.execution_history =
                                Orchestrator_log_execution(@, o.router,
                                    VStr("Selected: " \o selected_name)),
                            !.selected_name =
                                IF InAgents(o, selected_name) THEN selected_name
                                ELSE IF o.default_agent # "" THEN o.default_agent
                                ELSE o.agents[1]]

\* selected_name = self.router.run(routing_prompt, context).strip() and the
\* fallback
conditional_route(o, f) ==
    LET o1 == Called(o, o.router, routing_prompt(o), o.current_context, f)
    IN  IF f.exc # NoExc THEN Propagate(o1, f.exc)
        ELSE LET selected_name == strip(f.value.str)
             IN  [o1 EXCEPT !.pc = "selected",
                            !.execution_history =
                                Orchestrator_log_execution(@, o.router,
                                    VStr("Selected: " \o selected_name)),
                            !.selected_name =
                                IF InAgents(o, selected_name) THEN selected_name
                                ELSE IF o.default_agent # "" THEN o.default_agent
                                ELSE o.agents[1]]

\* result = selected_agent.run(task, context); return result
conditional_selected(o, f) ==
    LET o1 == Called(o, o.selected_name, o.task, o.current_context, f)
    IN  IF f.exc # NoExc THEN Propagate(o1, f.exc)
        ELSE [o1 EXCEPT !.result = f.value, !.pc = "returned",
                        !.execution_history =
                            Orchestrator_log_execution(@, o.selected_name, f.value)]

CondRun ==
    /\ orch.kind = "conditional" /\ OrchIdle(orch)
    /\ \E task \in Tasks, context \in Contexts :
          orch' = ConditionalOrchestrator_run(orch, task, context)
    /\ UNCHANGED <<agent, twin, client>>

CondRoute ==
    /\ orch.kind = "conditional" /\ orch.pc = "route"
    /\ \E f \in RouterOutcomes(orch) : orch' = conditional_route(orch, f)
    /\ UNCHANGED <<agent, twin, client>>

CondSelected ==
    /\ orch.kind = "conditional" /\ orch.pc = "selected"
    /\ \E f \in RunOutcomes(orch.selected_name) :
          orch' = conditional_selected(orch, f)
    /\ UNCHANGED <<agent, twin, client>>

AgentNames(k) == [i \in 1..k |-> AgentName(i)]

InitOrch ==
    /\ agent = NewAgent({"calculator"}, FALSE, 0)
    /\ twin = agent
    /\ client = NoClient
    /\ orch \in {Orchestrator("sequential", AgentNames(k), "", "", "") :
                    k \in 0..MaxAgents}
          \cup {Orchestrator("hierarchical", <<"manager">> \o AgentNames(k),
                             "manager", "", "") : k \in 0..MaxAgents}
          \cup UNION {{Orchestrator("conditional", AgentNames(k), "", "router", d) :
                           d \in {"", AgentName(1), AgentName(k)}} :
                       k \in 1..MaxAgents}

NextOrch ==
    \/ SeqRun \/ SeqAgent \/ SeqReturn
    \/ HierRun \/ HierPlan \/ HierWorker \/ HierFinal
    \/ CondRun \/ CondRoute \/ CondSelected

SpecOrch == InitOrch /\ [][NextOrch]_vars

(***************************************************************************)
(* One Agent instance listed twice in a ParallelOrchestrator: agent is the *)
(* shared instance, orch.frame[w] the locals of the call of agent.run made *)
(* by future w (pc, iteration, messages, content, tool_call, answer,       *)
(* result).  A step of a frame is one access to the shared lists: the read *)
(* of _prepare_messages, one append, one extend.  orch.writers tells, for  *)
(* each entry of agent.conversation_history, the future that wrote it.     *)
(***************************************************************************)
SharedOutputs == {OutFinal, OutPlain, OutCalc}

SharedChatResults == Failures \cup {Content(o) : o \in SharedOutputs}

Futures == {1, 2}

NoFrame ==
    [pc |-> "queued", iteration |-> 0, messages |-> <<>>, content |-> "",
     tool_call |-> NoCall, answer |-> "", result |-> VNone]

\* ParallelOrchestrator([a, a], max_workers): __init__ accepts the list as it is
SharedOrchestrator(max_workers) ==
    [pc |-> "idle", agents |-> <<AgentName(1), AgentName(1)>>,
     max_workers |-> max_workers, task |-> "",
     frame |-> [w \in Futures |-> NoFrame], writers |-> <<>>]

InFlight(o) == {w \in Futures : o.frame[w].pc \notin {"queued", "done"}}

\* run(task, context) up to the loop, in the worker of future w
shared_run(a, o, w) ==
    [o EXCEPT !.frame[w] = [NoFrame EXCEPT !.pc = "loop",
                               !.messages = _prepare_messages(a, o.task, VNone)]]

\* the loop test and one pass up to the first change of the history
shared_iterate(a, o, w, response) ==
    LET f == o.frame[w]
        content == Text(response.chunks)
        final_answer == _extract_final_answer(content)
        tool_call == _parse_tool_call(content)
        f1 == [f EXCEPT !.iteration = @ + 1]
        log == _log_execution(a.execution_log, "llm_response", content)
    IN  IF f.iteration >= a.max_iterations
        THEN [a |-> a,
              o |-> [o EXCEPT !.frame[w] = [f EXCEPT !.pc = "done",
                                  !.result = VStr(MaxIterationsText)]]]
        ELSE IF ~response.success
        THEN LET error_msg == "LLM API error: " \o response.error
             IN  [a |-> [a EXCEPT !.execution_log =
                                     _log_execution(@, "error", error_msg)],
                  o |-> [o EXCEPT !.frame[w] = [f1 EXCEPT !.pc = "done",
                                      !.result = VStr(error_msg)]]]
        ELSE IF Truthy(final_answer)
        THEN [a |-> [a EXCEPT !.execution_log = log],
              o |-> [o EXCEPT !.frame[w] = [f1 EXCEPT !.pc = "append_user",
                                  !.answer = final_answer.str]]]
        ELSE IF tool_call.kind # "NoneType"
        THEN [a |-> [a EXCEPT !.execution_log = log],
              o |-> [o EXCEPT !.frame[w] = [f1 EXCEPT !.pc = "dispatch",
                                  !.content = content, !.tool_call = tool_call]]]
        ELSE [a |-> [a EXCEPT !.execution_log = log],
              o |-> [o EXCEPT !.frame[w] = [f1 EXCEPT !.pc = "append_user",
                                  !.answer = content]]]

\* the `if tool_call:` branch: conversation_history.extend([...]) is one call
shared_dispatch(a, o, w) ==
    LET f == o.frame[w]
        x == _execute_tool(a.tools, a.execution_log, f.tool_call, "returns")
        observation == "Observation: " \o json_dumps(x.value)
        step == <<Msg("assistant", f.content), Msg("user", observation)>>
    IN  [a |-> [a EXCEPT !.execution_log = x.log,
                         !.conversation_history = @ \o step],
         o |-> [o EXCEPT !.frame[w] = [f EXCEPT !.pc = "loop",
                                          !.messages = @ \o step],
                         !.writers = @ \o <<w, w>>]]

\* self.conversation_history.append({"role": "user", "content": task})
shared_append_user(a, o, w) ==
    [a |-> [a EXCEPT !.conversation_history = Append(@, Msg("user", o.task))],
     o |-> [o EXCEPT !.frame[w].pc = "append_assistant",
                     !.writers = Append(@, w)]]

\* self.conversation_history.append({"role": "assistant", ...}); return
shared_append_assistant(a, o, w) ==
    LET f == o.frame[w]
    IN  [a |-> [a EXCEPT !.conversation_history =
                            Append(@, Msg("assistant", f.answer))],
         o |-> [o EXCEPT !.frame[w] = [f EXCEPT !.pc = "done",
                                          !.result = VStr(f.answer)],
                         !.writers = Append(@, w)]]

InitShared ==
    /\ agent \in {NewAgent({"calculator"}, TRUE, n) : n \in 1..MaxIterCap}
    /\ twin = NewAgent({"calculator"}, FALSE, 0)
    /\ client = NoClient
    /\ orch \in {SharedOrchestrator(w) : w \in 1..2}

SharedRun ==
    /\ orch.pc = "idle"
    /\ orch' = [orch EXCEPT !.pc = "collecting", !.task = "Calculate 2+2"]
    /\ UNCHANGED <<agent, twin, client>>

\* a free worker of the pool takes the oldest submitted call
SharedStart ==
    /\ orch.pc = "collecting"
    /\ Cardinality(InFlight(orch)) < orch.max_workers
    /\ \E w \in Futures :
          /\ orch.frame[w].pc = "queued"
          /\ \A v \in 1..(w - 1) : orch.frame[v].pc # "queued"
          /\ orch' = shared_run(agent, orch, w)
    /\ UNCHANGED <<agent, twin, client>>

SharedIterate ==
    /\ \E w \in Futures, response \in SharedChatResults :
          /\ orch.frame[w].pc = "loop"
          /\ LET x == shared_iterate(agent, orch, w, response)
             IN  agent' = x.a /\ orch' = x.o
    /\ UNCHANGED <<twin, client>>

SharedDispatch ==
    /\ \E w \in Futures :
          /\ orch.frame[w].pc = "dispatch"
          /\ LET x == shared_dispatch(agent, orch, w)
             IN  agent' = x.a /\ orch' = x.o
    /\ UNCHANGED <<twin, client>>

SharedAppendUser ==
    /\ \E w \in Futures :
          /\ orch.frame[w].pc = "append_user"
          /\ LET x == shared_append_user(agent, orch, w)
             IN  agent' = x.a /\ orch' = x.o
    /\ UNCHANGED <<twin, client>>

SharedAppendAssistant ==
    /\ \E w \in Futures :
          /\ orch.frame[w].pc = "append_assistant"
          /\ LET x == shared_append_assistant(agent, orch, w)
             IN  agent' = x.a /\ orch' = x.o
    /\ UNCHANGED <<twin, client>>

\* every future is complete; the executor shuts down; return results
SharedReturn ==
    /\ orch.pc = "collecting"
    /\ \A w \in Futures : orch.frame[w].pc = "done"
    /\ orch' = [orch EXCEPT !.pc = "returned"]
    /\ UNCHANGED <<agent, twin, client>>

NextShared ==
    \/ SharedRun \/ SharedStart \/ SharedIterate \/ SharedDispatch
    \/ SharedAppendUser \/ SharedAppendAssistant \/ SharedReturn

SpecShared == InitShared /\ [][NextShared]_vars

(***************************************************************************)
(* An agent with memory whose conversation_history already holds the       *)
(* exchanges of k earlier runs, each a user task and an assistant answer   *)
(* as run stores them; the agent then runs as in Spec.                     *)
(***************************************************************************)
RECURSIVE Exchanges(_)
Exchanges(k) ==
    IF k = 0 THEN <<>>
    ELSE Exchanges(k - 1) \o <<Msg("user", "task " \o ToString(k)),
                               Msg("assistant", "answer " \o ToString(k))>>

InitMemory ==
    /\ agent \in {[NewAgent({"calculator"}, TRUE, 1)
                      EXCEPT !.conversation_history = Exchanges(k)] :
                    k \in 0..MaxExchanges}
    /\ twin = NewAgent({"calculator"}, FALSE, 0)
    /\ orch = NoOrch
    /\ client = NoClient

SpecMemory == InitMemory /\ [][Next]_vars

(***************************************************************************)
(* _parse_tool_call on texts seen character by character.  A text is a     *)
(* sequence of tokens; "{", "}", a blank, a newline and the three          *)
(* backquotes (written ''') are tokens of their own wherever they occur,   *)
(* also inside a JSON string, and no other token holds one of them, so     *)
(* that the regular expression sees on tokens what it sees on characters.  *)
(* agent is the caller of the parser: the object whose JSON text is        *)
(* parsed, the fence around it and the two results.                        *)
(***************************************************************************)
Whitespace == {" ", "\n"}

\* the string values of the one argument the objects carry
ArgTexts ==
    {<<"2+2">>, <<"d = ", "{", "}">>, <<"d = ", "{", "}", "'''">>,
     <<"see ", "{", "a", "}", " ", "'''", "py">>, <<"'''">>, <<>>}

ToolObjects ==
    [shape : {"legacy", "react"}, tool : {"calculator", "python"}, arg : ArgTexts]

RECURSIVE Concat(_)
Concat(t) == IF t = <<>> THEN "" ELSE Head(t) \o Concat(Tail(t))

\* json.dumps(object), in tokens
ObjectText(o) ==
    <<"{",
      IF o.shape = "legacy"
      THEN "\"tool\": \"" \o o.tool \o "\", \"parameters\": "
      ELSE "\"action\": \"" \o o.tool \o "\", \"action_input\": ",
      "{", "\"code\": \"">> \o o.arg \o <<"\"", "}", "}">>

\* the dict json.loads gives for the text of o
ObjectValue(o) ==
    LET code == Concat(o.arg)
        args == VDict("{\"code\": \"" \o code \o "\"}", "{'code': '" \o code \o "'}",
                      {"code"}, "")
    IN  IF o.shape = "legacy"
        THEN Decoded("dict", {"tool", "parameters"},
                     VNone, VNone, VNone, VStr(o.tool), args)
        ELSE Decoded("dict", {"action", "action_input"},
                     VNone, VStr(o.tool), args, VNone, VNone)

\* json.loads(text): text is the whole text of an object, or it does not decode
token_loads(t) ==
    IF \E o \in ToolObjects : ObjectText(o) = t
    THEN ObjectValue(CHOOSE o \in ToolObjects : ObjectText(o) = t)
    ELSE DecodeError

\* \s* from position i: the first position that holds no whitespace
RECURSIVE SkipSpace(_, _)
SkipSpace(t, i) ==
    IF i <= Len(t) /\ t[i] \in Whitespace THEN SkipSpace(t, i + 1) ELSE i

\* the positions of "}" that \s*''' follows
Closers(t, from) ==
    {j \in from..Len(t) :
        /\ t[j] = "}"
        /\ LET k == SkipSpace(t, j + 1)
           IN  k <= Len(t) /\ t[k] \in {"'''", "'''json"}}

Min(S) == CHOOSE x \in S : \A y \in S : x <= y

\* re.search(r''''json\s*(\{.*?\})\s*'''', content, re.DOTALL): group 1 of
\* the leftmost match, <<>> when nothing matches.  For a start at s the
\* group opens at the first non-blank after the opener, which must be "{",
\* and .*? ends it at the first "}" that \s*''' follows.
RECURSIVE fence_search(_, _)
fence_search(t, s) ==
    IF s > Len(t) THEN <<>>
    ELSE LET i == SkipSpace(t, s + 1)
         IN  IF t[s] = "'''json" /\ i <= Len(t) /\ t[i] = "{" /\ Closers(t, i + 1) # {}
             THEN SubSeq(t, i, Min(Closers(t, i + 1)))
             ELSE fence_search(t, s + 1)

\* json.loads(json_match.group(1)) when there is a match
token_fence_loads(t) ==
    LET g == fence_search(t, 1)
    IN  IF g = <<>> THEN NoMatch ELSE token_loads(g)

token_parse_tool_call(t) == tool_call_of(token_fence_loads(t), token_loads(t))

\* the text wrapped in a json code fence
Fenced(t, prose, space) == prose \o <<"'''json">> \o space \o t \o space \o <<"'''">>

Proses == {<<>>, <<"Calling", " ", "the", " ", "tool:", "\n">>}
Spaces == {<<>>, <<"\n">>, <<" ", "\n">>}

InitParse ==
    /\ agent \in [object : ToolObjects, prose : Proses, space : Spaces,
                  plain_done : {FALSE}, plain : {NoCall},
                  fenced_done : {FALSE}, fenced : {NoCall}]
    /\ twin = NewAgent({"calculator"}, FALSE, 0)
    /\ orch = NoOrch
    /\ client = NoClient

ParsePlain ==
    /\ ~agent.plain_done
    /\ agent' = [agent EXCEPT !.plain_done = TRUE,
                    !.plain = token_parse_tool_call(ObjectText(agent.object))]
    /\ UNCHANGED <<twin, orch, client>>

ParseFenced ==
    /\ ~agent.fenced_done
    /\ agent' = [agent EXCEPT !.fenced_done = TRUE,
                    !.fenced = token_parse_tool_call(
                        Fenced(ObjectText(agent.object), agent.prose, agent.space))]
    /\ UNCHANGED <<twin, orch, client>>

NextParse == ParsePlain \/ ParseFenced

SpecParse == InitParse /\ [][NextParse]_vars

(***************************************************************************)
(* ToolStorageManager (utils/tool_storage.py).  In SpecStore client is the *)
(* manager: file is the content of custom_tools.json, a JSON object with   *)
(* the list of configurations under "tools"; op, name, arg and ret are the *)
(* last call made and what it returned, before the list it found, calls   *)
(* the number of calls made.  A                                            *)
(* configuration and an update are dicts: functions from field names.      *)
(***************************************************************************)
Config(name, description) == ("name" :> name) @@ ("description" :> description)

ToolConfigs == {Config(n, d) : n \in {"a", "b"}, d \in {"x", "y"}}

\* the updates dict of update_tool: any fields, "name" among them
Updates ==
    {("description" :> d) : d \in {"x", "y"}}
        \cup {("name" :> n) : n \in {"a", "b"}}
        \cup ToolConfigs

\* what get_tool returns for a name that is not stored
NoTool == ("None" :> "None")

\* json.dump({"tools": tools_data}, f)
json_dump(tools_data) == [tools |-> tools_data]

\* load_all_tools: json.load(f).get("tools", [])
load_all_tools(file) == file.tools

\* the indexes of the configurations whose tool.get("name") is name
Named(tools, name) == {i \in 1..Len(tools) : tools[i]["name"] = name}

\* ToolStorageManager.__init__ on a new directory: _init_tools_file
ToolStorageManager ==
    [file |-> json_dump(<<>>), op |-> "", name |-> "", arg |-> NoTool,
     ret |-> FALSE, before |-> <<>>, calls |-> 0]

save_tool(m, tool_config) ==
    LET tools_data == load_all_tools(m.file)
        found == Named(tools_data, tool_config["name"])
        stored == IF found # {}
                  THEN [tools_data EXCEPT ![Min(found)] = tool_config]
                  ELSE Append(tools_data, tool_config)
    IN  [file |-> json_dump(stored), op |-> "save_tool",
         name |-> tool_config["name"], arg |-> tool_config, ret |-> TRUE,
         before |-> tools_data, calls |-> m.calls + 1]

get_tool(m, tool_name) ==
    LET tools == load_all_tools(m.file)
        found == Named(tools, tool_name)
    IN  IF found # {} THEN tools[Min(found)] ELSE NoTool

delete_tool(m, tool_name) ==
    LET tools_data == load_all_tools(m.file)
        kept == SelectSeq(tools_data, LAMBDA tool : tool["name"] # tool_name)
        m1 == [m EXCEPT !.op = "delete_tool", !.name = tool_name, !.arg = NoTool,
                        !.before = tools_data, !.calls = @ + 1]
    IN  IF Len(kept) = Len(tools_data)
        THEN [m1 EXCEPT !.ret = FALSE]
        ELSE [m1 EXCEPT !.ret = TRUE, !.file = json_dump(kept)]

\* tool.update(updates) on the first configuration of that name
update_tool(m, tool_name, updates) ==
    LET tools_data == load_all_tools(m.file)
        found == Named(tools_data, tool_name)
        m1 == [m EXCEPT !.op = "update_tool", !.name = tool_name, !.arg = updates,
                        !.before = tools_data, !.calls = @ + 1]
    IN  IF found = {}
        THEN [m1 EXCEPT !.ret = FALSE]
        ELSE [m1 EXCEPT !.ret = TRUE,
                        !.file = json_dump([tools_data EXCEPT
                                     ![Min(found)] = updates @@ tools_data[Min(found)]])]

InitStore ==
    /\ agent = NewAgent({"calculator"}, FALSE, 0)
    /\ twin = agent
    /\ orch = NoOrch
    /\ client = ToolStorageManager

SaveTool ==
    /\ client.calls < MaxStoreOps
    /\ \E c \in ToolConfigs : client' = save_tool(client, c)
    /\ UNCHANGED <<agent, twin, orch>>

UpdateTool ==
    /\ client.calls < MaxStoreOps
    /\ \E n \in {"a", "b"}, u \in Updates : client' = update_tool(client, n, u)
    /\ UNCHANGED <<agent, twin, orch>>

DeleteTool ==
    /\ client.calls < MaxStoreOps
    /\ \E n \in {"a", "b"} : client' = delete_tool(client, n)
    /\ UNCHANGED <<agent, twin, orch>>

NextStore == SaveTool \/ UpdateTool \/ DeleteTool

SpecStore == InitStore /\ [][NextStore]_vars

(***************************************************************************)
(* The tool set and the system prompt of an Agent.  In SpecTools agent is  *)
(* the instance with the settings the prompt is built from (name, role,    *)
(* custom_instructions, use_react), its tools in the order of the dict,    *)
(* a tool standing for its name, and the last call of add_tool or          *)
(* remove_tool (op, arg, ret) with the tools and the prompt it found       *)
(* (tools0, prompt0).  The templates are written by their names.           *)
(***************************************************************************)
RECURSIVE NumberedFrom(_, _)
NumberedFrom(tools, i) ==
    IF i > Len(tools) THEN ""
    ELSE (IF i > 1 THEN "\n\n" ELSE "")
            \o ToString(i) \o ". **" \o tools[i] \o "**" \o NumberedFrom(tools, i + 1)

format_tools_description(tools) == NumberedFrom(tools, 1)

\* ROLE_TEMPLATES.get(role, ROLE_TEMPLATES[default role])["instructions"]
RoleInstructions(role) ==
    IF role = "math teacher" THEN "instructions of math teacher"
    ELSE "instructions of general assistant"

get_system_prompt(tools_description, role, custom_instructions, use_react) ==
    LET combined == IF custom_instructions # ""
                    THEN RoleInstructions(role) \o "\n\n## extra requirements:\n"
                            \o custom_instructions
                    ELSE RoleInstructions(role)
        template == IF use_react THEN "REACT_SYSTEM_TEMPLATE" ELSE "SIMPLE_SYSTEM_TEMPLATE"
    IN  template \o "(" \o tools_description \o ")(" \o combined \o ")"

RECURSIVE BulletsFrom(_, _)
BulletsFrom(tools, i) ==
    IF i > Len(tools) THEN ""
    ELSE "\n- " \o tools[i] \o ": description of " \o tools[i] \o BulletsFrom(tools, i + 1)

_default_system_prompt(name, tools) ==
    "You are " \o name \o ", a helpful AI assistant.\n\nYou have access to the following tools:\n"
       \o (IF tools # <<>>
           THEN BulletsFrom(tools, 1) \o "\n\nTo use a tool, respond with a JSON object in this format: ..."
           ELSE "\nNo tools available. Respond based on your knowledge.")

\* Agent.__init__: the fields the prompt depends on
Agent_init(name, tools, system_prompt, role, use_react) ==
    [name |-> name, role |-> role, use_react |-> use_react,
     custom_instructions |-> system_prompt, tools |-> tools,
     system_prompt |-> IF tools # <<>>
                       THEN get_system_prompt(format_tools_description(tools),
                                              role, system_prompt, use_react)
                       ELSE _default_system_prompt(name, tools),
     op |-> "", arg |-> "", ret |-> FALSE, tools0 |-> tools, prompt0 |-> ""]

InTools(tools, name) == \E i \in 1..Len(tools) : tools[i] = name

\* self.tools[tool.name] = tool; self.system_prompt = self._default_system_prompt()
add_tool(a, tool) ==
    LET tools == IF InTools(a.tools, tool) THEN a.tools ELSE Append(a.tools, tool)
    IN  [a EXCEPT !.op = "add_tool", !.arg = tool, !.ret = FALSE,
                  !.tools0 = a.tools, !.prompt0 = a.system_prompt,
                  !.tools = tools,
                  !.system_prompt = _default_system_prompt(a.name, tools)]

remove_tool(a, tool_name) ==
    LET a1 == [a EXCEPT !.op = "remove_tool", !.arg = tool_name,
                        !.tools0 = a.tools, !.prompt0 = a.system_prompt]
        tools == SelectSeq(a.tools, LAMBDA t : t # tool_name)
    IN  IF InTools(a.tools, tool_name)
        THEN [a1 EXCEPT !.tools = tools, !.ret = TRUE,
                        !.system_prompt = _default_system_prompt(a.name, tools)]
        ELSE [a1 EXCEPT !.ret = FALSE]

ToolLists == {<<>>, <<"calculator">>, <<"calculator", "flaky">>}

InitTools ==
    /\ agent \in {Agent_init("agent1", tools, custom, role, use_react) :
                    tools \in ToolLists, custom \in {"", "Be brief."},
                    role \in {"general assistant", "math teacher"},
                    use_react \in BOOLEAN}
    /\ twin = NewAgent({"calculator"}, FALSE, 0)
    /\ orch = NoOrch
    /\ client = NoClient

AddTool ==
    /\ \E tool \in ToolNames : agent' = add_tool(agent, tool)
    /\ UNCHANGED <<twin, orch, client>>

RemoveTool ==
    /\ \E tool_name \in ToolNames : agent' = remove_tool(agent, tool_name)
    /\ UNCHANGED <<twin, orch, client>>

NextTools == AddTool \/ RemoveTool

SpecTools == InitTools /\ [][NextTools]_vars

(***************************************************************************)
(* Claims about one agent, checked under Spec.                             *)
(***************************************************************************)
Last(q) == q[Len(q)]

\* the run in progress has seen only tool invocations so far
OnlyToolInvocations(a) == a.outcome \notin {"error", "final_answer", "response"}

\* C1: an Agent.run with max_iterations = N >= 1 whose every model response
\* parses to a tool invocation makes exactly N calls to the completion client,
\* never an (N+1)-th, and then returns the sentinel
\* 'Maximum iterations reached. Task may be incomplete.' as a normal value.
C1_IterationCap ==
    (agent.mode = "run" /\ agent.max_iterations >= 1)
    => /\ agent.calls <= agent.max_iterations
       /\ (agent.pc \in {"returned", "raised"} /\ OnlyToolInvocations(agent))
          => /\ agent.pc = "returned"
             /\ agent.calls = agent.max_iterations
             /\ agent.result = VStr(MaxIterationsText)

\* the observation message json.dumps makes of a tool result
Observation(r) == Msg("user", "Observation: " \o json_dumps(r))

\* C2: when a registered tool's call raises, whatever the exception (a
\* TypeError from arguments that are no mapping or do not fit included), the
\* dispatch yields the ToolResult {success: false, error: str(exception)},
\* that result is the observation appended to the messages, and nothing
\* propagates out of run or run_stream.
C2_ToolExceptionContained ==
    agent.tool_raised # NoExc
    => /\ agent.pc # "raised"
       /\ agent.raised = NoExc
       /\ agent.tool_results # <<>>
       /\ Last(agent.tool_results) = [success |-> FALSE, error |-> agent.tool_raised.msg]
       /\ Len(agent.messages) = Len(agent.prepared) + 2 * Len(agent.tool_results)
       /\ Last(agent.messages) = Observation(Last(agent.tool_results))

\* C2's case: a registered tool called with arguments that are a list
C2_Witness ==
    /\ agent.tool_raised.type = "TypeError"
    /\ agent.tool_call.parameters.j = "list"
    /\ agent.pc = "loop"
    /\ agent.mode = "stream"

\* the tool call just dispatched names no key of the tool mapping
UnknownTool(a) ==
    /\ a.tool_call.kind = "dict"
    /\ LET tool_name == CallGet(a.tool_call, "tool", VNone)
       IN  ~(tool_name.j = "str" /\ tool_name.str \in a.tools)

\* C3: a tool invocation whose tool name is not a key of the tool mapping,
\* whatever JSON value the name is, neither ends the run nor raises: the
\* not-found ToolResult is produced and logged and is the observation
\* appended, and the loop goes on.
C3_UnknownToolContinues ==
    (agent.dispatches > 0 /\ agent.pc \in {"loop", "raised"} /\ UnknownTool(agent))
    => /\ agent.pc = "loop"
       /\ agent.tool_results # <<>>
       /\ Last(agent.tool_results) =
             [success |-> FALSE,
              error |-> "Tool '" \o CallGet(agent.tool_call, "tool", VNone).str
                           \o "' not found"]
       /\ Last(agent.execution_log).event_type = "tool_error"
       /\ Last(agent.messages) = Observation(Last(agent.tool_results))

\* the object the parser reads from an output: the fenced block's, else the text's
ParsedObject(text) ==
    IF fence_loads(text).kind = "dict" THEN fence_loads(text) ELSE json_loads(text)

FinalAndAction(text) ==
    LET d == ParsedObject(text)
    IN  /\ d.kind = "dict"
        /\ "final_answer" \in d.has
        /\ ({"action", "action_input"} \subseteq d.has \/ "tool" \in d.has)

\* the output of the latest model call of the run
LatestOutput(a) == Text(a.response.chunks)

\* C4: an output, fenced or bare, that decodes to one object holding both a
\* final_answer key and an action/action_input pair (or a legacy tool key)
\* parses to FinalAnswer, never to a ToolInvocation: the run ends with the
\* final answer and no tool is dispatched.
C4_FinalAnswerWins ==
    (agent.response.success /\ FinalAndAction(LatestOutput(agent)))
    => /\ agent.pc = "returned"
       /\ agent.outcome = "final_answer"
       /\ agent.mode = "run"
          => agent.result = ParsedObject(LatestOutput(agent)).final_answer
       /\ agent.mode = "stream"
          => Last(agent.events).type = "final_answer"

\* C6: for a ParallelOrchestrator over agents with pairwise distinct names, in
\* every completion order and for every subset of agents whose run raises,
\* run does not raise, and the mapping it returns has exactly one entry per
\* agent, keyed by its name: 'Error: <exception text>' for an agent whose run
\* raised, the agent's own run result for every other.
C6_ParallelContainsFailures ==
    /\ orch.pc # "raised"
    /\ orch.pc = "returned"
       => /\ orch.raised = NoExc
          /\ DOMAIN orch.results = Names(orch)
          /\ \A n \in Names(orch) :
                IF orch.future[n].exc # NoExc
                THEN orch.results[n] = VStr("Error: " \o orch.future[n].exc.msg)
                ELSE orch.results[n] = orch.future[n].value

\* C6's case: three agents, the second one's run raised, and it was not the
\* last to complete; run has returned
C6_Witness ==
    /\ orch.pc = "returned"
    /\ Len(orch.agents) = 3
    /\ orch.future[orch.agents[1]].exc = NoExc
    /\ orch.future[orch.agents[2]].exc # NoExc
    /\ orch.future[orch.agents[3]].exc = NoExc
    /\ orch.execution_history[1].agent = orch.agents[3]
    /\ orch.execution_history[2].agent = orch.agents[2]

TerminalTypes == {"final_answer", "response", "error", "max_iterations"}

\* the contents of the terminal events of a stream, concatenated
RECURSIVE TerminalContent(_)
TerminalContent(events) ==
    IF events = <<>> THEN ""
    ELSE IF events[1].type \in TerminalTypes
         THEN events[1].content \o TerminalContent(Tail(events))
         ELSE TerminalContent(Tail(events))

C7_OneObservationPerDispatch ==
    LET base == Len(agent.prepared)
    IN  /\ Len(agent.tool_results) = agent.dispatches
        /\ agent.calls <= agent.dispatches + 1
        /\ Len(agent.messages) = base + 2 * agent.dispatches
        /\ SubSeq(agent.messages, 1, base) = agent.prepared
        /\ \A k \in 1..agent.dispatches :
              /\ agent.messages[base + 2 * k - 1].role = "assistant"
              /\ agent.messages[base + 2 * k] = Observation(agent.tool_results[k])

\* the outputs of the model calls the log records, in order
RECURSIVE Turns(_)
Turns(log) ==
    IF log = <<>> THEN <<>>
    ELSE IF log[1].event_type = "llm_response"
         THEN <<log[1].data>> \o Turns(Tail(log))
         ELSE Turns(Tail(log))

EventTypes(log) == [i \in 1..Len(log) |-> log[i].event_type]

\* task 'Calculate 2+2', tool set {calculator}, a fresh agent; turn 1 calls the
\* calculator on '2+2', turn 2 gives final_answer '4'; run has returned
Scenario(a) ==
    /\ a.mode = "run" /\ a.pc = "returned"
    /\ a.task = "Calculate 2+2" /\ a.context = VNone
    /\ a.tools = {"calculator"}
    /\ a.total_calls = a.calls
    /\ Len(Turns(a.execution_log)) >= 2
    /\ Turns(a.execution_log)[1] = Text(OutCalc)
    /\ Turns(a.execution_log)[2] = Text(OutFinal)

\* C8 as stated: in the scenario exactly 2 model calls are made, run returns
\* '4', and the execution log has 5 entries.
C8_LogHasFiveEntries ==
    Scenario(agent)
    => /\ agent.calls = 2
       /\ agent.result = VStr("4")
       /\ Len(agent.execution_log) = 5

\* C8 as amended: in the scenario exactly 2 model calls are made, run returns
\* '4', and the execution log has the 4 entries llm_response, tool_call,
\* tool_result, llm_response.
C8_LogHasFourEntries ==
    Scenario(agent)
    => /\ agent.calls = 2
       /\ agent.result = VStr("4")
       /\ EventTypes(agent.execution_log) =
             <<"llm_response", "tool_call", "tool_result", "llm_response">>

C8_Witness == Scenario(agent)

\* the user message of a call: the task, after the serialized context if any
UserMessage(task, context) ==
    Msg("user", IF context = VNone THEN task
                ELSE "Additional context: " \o context.json \o "\n\n" \o task)

\* C9: with memory disabled, whatever earlier run/run_stream calls did, the
\* messages sent to the completion client at the start of a call are only the
\* system prompt and the new user task, and conversation_history stays empty.
C9_NoCarryOver ==
    ~agent.memory_enabled
    => /\ agent.conversation_history = <<>>
       /\ agent.pc # "idle"
          => agent.prepared = <<Msg("system", agent.system_prompt),
                                UserMessage(agent.task, agent.context)>>
       /\ agent.calls = 1 => agent.sent = agent.prepared

\* C9's case: the first model call of a second call, after a call that used a tool
C9_Witness ==
    /\ ~agent.memory_enabled
    /\ agent.calls = 1 /\ agent.total_calls = 2
    /\ \E i \in 1..Len(agent.execution_log) :
          agent.execution_log[i].event_type = "tool_result"

\* C10: a failure result of the completion client ends the run at once: no
\* retry, no further model call or tool dispatch; run returns (run_stream
\* emits, as its one error event and last event) 'LLM API error: <error>',
\* and nothing is raised.
C10_FailureIsTerminal ==
    (agent.calls > 0 /\ ~agent.response.success)
    => /\ agent.pc = "returned"
       /\ agent.outcome = "error"
       /\ agent.raised = NoExc
       /\ agent.calls = agent.iteration
       /\ agent.mode = "run"
          => agent.result = VStr("LLM API error: " \o agent.response.error)
       /\ agent.mode = "stream"
          => /\ Last(agent.events) =
                   Event("error", "LLM API error: " \o agent.response.error)
             /\ Cardinality({i \in 1..Len(agent.events) :
                                agent.events[i].type = "error"}) = 1

\* C10's case: the failure comes at the second model call, after a tool call
C10_Witness ==
    /\ agent.calls = 2 /\ ~agent.response.success
    /\ agent.dispatches = 1

\* the waits of a call that made n attempts, all but the last one failed ones
Backoff(n) == [k \in 1..(IF n > 0 THEN n - 1 ELSE 0) |-> 2 ^ (k - 1)]

\* C11: LLMClient.chat never raises: whatever the HTTP exchange does on each
\* attempt (a transport exception, an error status, a 200 answer with any
\* body), it returns a mapping with a success flag; it makes at most
\* max_retries attempts, waits 2^k seconds after the k-th (0-based) failed
\* attempt except the last, and returns success=false with an error text
\* once the attempts are used up.
C11_ChatNeverRaises ==
    /\ client.pc # "raised"
    /\ client.posts <= client.max_retries
    /\ client.pc = "returned"
       => /\ client.slept = Backoff(client.posts)
          /\ ~client.result.success
             => /\ client.posts = client.max_retries
                /\ client.result.error # ""

\* C12: request_count and total_tokens grow only on success: a chat call that
\* returns success=false, or that ends without returning a success result,
\* leaves both counters as they were before the call.
C12_CountersOnlyOnSuccess ==
    ((client.pc = "returned" /\ ~client.result.success) \/ client.pc = "raised")
    => /\ client.request_count = client.count0
       /\ client.total_tokens = client.tokens0

\* the output decodes to an object of one of the three recognized shapes
RecognizedShape(text) ==
    LET d == ParsedObject(text)
    IN  /\ d.kind = "dict"
        /\ \/ "final_answer" \in d.has
           \/ {"action", "action_input"} \subseteq d.has
           \/ "tool" \in d.has

\* C13: parsing model output is never an error: an output of none of the three
\* recognized object shapes (valid JSON that is an array, a string, a number
\* or null, and text whose fenced block does not decode, included) is plain
\* text: nothing is raised and the run ends with the raw content as the
\* final response.
C13_UnrecognizedIsPlainText ==
    (agent.response.success /\ ~RecognizedShape(LatestOutput(agent)))
    => /\ agent.pc = "returned"
       /\ agent.outcome = "response"
       /\ agent.raised = NoExc
       /\ agent.mode = "run" => agent.result = VStr(LatestOutput(agent))
       /\ agent.mode = "stream"
          => Last(agent.events) = Event("response", LatestOutput(agent))

\* the records execution_history gained in the call of run in progress
Gained(o) == SubSeq(o.execution_history, o.history0 + 1, Len(o.execution_history))

\* C14: SequentialOrchestrator.run over a non-empty agent list runs the agents
\* one at a time in list order, each exactly once; the first gets the
\* original task; every later agent gets a task text built on the original
\* task and a context whose previous_result is the result of the agent before
\* it; the value returned is the last agent's result.
C14_SequentialChain ==
    orch.kind = "sequential"
    => /\ Len(orch.runs) <= Len(orch.agents)
       /\ \A k \in 1..Len(orch.runs) :
             /\ orch.runs[k].agent = orch.agents[k]
             /\ k = 1 => orch.runs[k].task = orch.task
             /\ k > 1
                => /\ orch.runs[k].task =
                         "Based on the previous result, continue with: " \o orch.task
                   /\ "previous_result" \in DOMAIN orch.runs[k].context.d
                   /\ orch.runs[k].context.d["previous_result"] = orch.runs[k - 1].value
       /\ orch.pc = "returned"
          => /\ Len(orch.runs) = Len(orch.agents)
             /\ orch.result = orch.runs[Len(orch.runs)].value

\* C14's case: three agents ran and run returned
C14_Witness ==
    /\ orch.kind = "sequential" /\ orch.pc = "returned"
    /\ Len(orch.runs) = 3
    /\ orch.runs[2].value # orch.runs[3].value

\* C15: when the run of agent k raises inside SequentialOrchestrator.run, the
\* error is not caught: it leaves run, no agent after k is run, and the
\* execution history gains records for agents 1..k-1 of that call only.
C15_SequentialPropagates ==
    orch.kind = "sequential"
    => \A k \in 1..Len(orch.runs) :
          orch.runs[k].exc # NoExc
          => /\ orch.pc = "raised"
             /\ orch.raised = orch.runs[k].exc
             /\ k = Len(orch.runs)
             /\ Len(Gained(orch)) = k - 1
             /\ \A j \in 1..(k - 1) :
                   Gained(orch)[j] = [agent |-> orch.agents[j],
                                      result |-> orch.runs[j].value]

\* C15's case: the second of three agents raised
C15_Witness ==
    /\ orch.kind = "sequential" /\ Len(orch.agents) = 3
    /\ Len(orch.runs) = 2
    /\ orch.runs[2].exc # NoExc

\* what the manager and the workers returned in the call in progress
WorkerOutputs(o) ==
    [j \in 1..(IF Len(o.runs) - 1 < Len(Workers(o)) THEN Len(o.runs) - 1
               ELSE Len(Workers(o))) |->
        [name |-> o.runs[j + 1].agent, result |-> o.runs[j + 1].value]]

Routed(o, text) ==
    IF \E k \in 1..Len(o.agents) : text \in Padded(o.agents[k])
    THEN o.agents[CHOOSE k \in 1..Len(o.agents) : text \in Padded(o.agents[k])]
    ELSE IF o.default_agent # "" THEN o.default_agent
    ELSE o.agents[1]

\* C17: ConditionalOrchestrator.run runs the router exactly once, then exactly
\* one candidate with the original task, and returns that candidate's result:
\* the candidate named by the router's trimmed text, else the configured
\* default agent, else the first candidate in mapping order.
C17_ConditionalRouting ==
    orch.kind = "conditional"
    => /\ Len(orch.runs) <= 2
       /\ Len(orch.runs) >= 1 => orch.runs[1].agent = orch.router
       /\ Len(orch.runs) = 2
          => /\ orch.runs[2].agent = Routed(orch, orch.runs[1].value.str)
             /\ orch.runs[2].task = orch.task
       /\ orch.pc = "returned"
          => /\ Len(orch.runs) = 2
             /\ orch.result = orch.runs[2].value

\* C17's case: the router answered the last of three candidates with white
\* space around the name, and that candidate ran
C17_Witness ==
    /\ orch.kind = "conditional" /\ orch.pc = "returned"
    /\ Len(orch.agents) = 3
    /\ orch.runs[1].value.str = "  " \o orch.agents[3] \o "\n"
    /\ orch.runs[2].agent = orch.agents[3]

\* C18: during ParallelOrchestrator.run, whatever the interleaving of the
\* workers and however many agents the orchestrator holds, the number of
\* agent runs executing at the same time never exceeds max_workers.
C18_PoolBound == Cardinality(Running(orch)) <= orch.max_workers

\* the pool is full and a submitted call waits for a worker
C18_Witness ==
    /\ orch.pc = "collecting"
    /\ Cardinality(Running(orch)) = orch.max_workers
    /\ Len(orch.agents) > orch.max_workers
    /\ \E n \in DOMAIN orch.status : orch.status[n] = "queued"

\* C19: when one Agent instance is run by two workers of a
\* ParallelOrchestrator at the same time, the two runs' appends to its
\* conversation history never interleave (a lock guards them, or the
\* sharing is refused): while a run is between the append of its user
\* message and the append of its answer, the newest entry of the history is
\* its own.
C19_AppendsNeverInterleave ==
    \A w \in Futures :
        orch.frame[w].pc = "append_assistant" => Last(orch.writers) = w

StreamVocabulary ==
    {"iteration", "thought_start", "thought_chunk", "thought_end", "thought",
     "tool_call", "tool_result", "final_answer", "response", "error",
     "max_iterations"}

\* the event types that may come right after an event of type t
Successors(t) ==
    CASE t = "iteration" -> {"error", "thought_start", "thought"}
      [] t \in {"thought_start", "thought_chunk"} -> {"thought_chunk", "thought_end"}
      [] t \in {"thought_end", "thought"} -> {"tool_call", "final_answer", "response"}
      [] t = "tool_call" -> {"tool_result"}
      [] t = "tool_result" -> {"iteration", "max_iterations"}
      [] OTHER -> {}

IterationEvents(ev) == {i \in 1..Len(ev) : ev[i].type = "iteration"}

\* C20: every event of run_stream has a type of the fixed vocabulary; the
\* events follow the order iteration (numbered 1, 2, 3, ...), then error or
\* the reasoning text, then tool_call immediately followed by tool_result,
\* or final_answer or response; max_iterations comes only after
\* max_iterations iterations; and a stream consumed to its end holds
\* exactly one terminal event, which is its last event.
C20_EventOrder ==
    agent.mode = "stream" =>
        LET ev == agent.events
        IN  /\ \A i \in 1..Len(ev) : ev[i].type \in StreamVocabulary
            /\ ev # <<>> => ev[1].type \in {"iteration", "max_iterations"}
            /\ \A i \in 1..(Len(ev) - 1) : ev[i + 1].type \in Successors(ev[i].type)
            /\ \A i \in IterationEvents(ev) :
                  ev[i].iteration = Cardinality({j \in IterationEvents(ev) : j <= i})
            /\ \A i \in 1..Len(ev) :
                  ev[i].type = "max_iterations" =>
                      Cardinality(IterationEvents(ev)) = agent.max_iterations
            /\ agent.pc \in {"returned", "raised"} =>
                  /\ ev # <<>>
                  /\ Last(ev).type \in TerminalTypes
                  /\ Cardinality({i \in 1..Len(ev) : ev[i].type \in TerminalTypes}) = 1

\* C21: with memory enabled, the message list assembled at the start of a
\* run holds, between the system prompt and the new user task, the last
\* HistoryWindow (10) messages of conversation_history in their stored order
\* (all of them when there are fewer), so at most 12 messages; the older
\* ones are left out without an error and stay in conversation_history.
C21_HistoryWindow ==
    [][(Idle(agent) /\ agent'.pc = "loop" /\ agent.memory_enabled) =>
          LET h == agent.conversation_history
              m == agent'.prepared
              k == IF Len(h) <= HistoryWindow THEN Len(h) ELSE HistoryWindow
          IN  /\ Len(m) = k + 2 /\ Len(m) <= 12
              /\ m[1] = Msg("system", agent.system_prompt)
              /\ \A i \in 1..k : m[1 + i] = h[Len(h) - k + i]
              /\ m[Len(m)].role = "user"
              /\ agent'.messages = m
              /\ agent'.raised = NoExc
              /\ agent'.conversation_history = h]_vars

\* a run has started on a history longer than the window
C21_Witness ==
    /\ agent.pc = "loop" /\ agent.calls = 0 /\ agent.memory_enabled
    /\ Len(agent.conversation_history) > HistoryWindow
    /\ Len(agent.prepared) = 12
    /\ agent.prepared[2] = agent.conversation_history[Len(agent.conversation_history) - 9]

\* C22: for every JSON object text of the tool/parameters shape and of the
\* action/action_input shape, parsing the text wrapped in a json code fence
\* and parsing the text itself give identical tool invocations: the same
\* tool name and the same arguments.
C22_FenceInsensitive ==
    (agent.plain_done /\ agent.fenced_done) => agent.fenced = agent.plain

\* C23: ToolStorageManager behaves as a map keyed by tool name under any
\* sequence of save_tool, update_tool and delete_tool: no two stored
\* configurations have the same name; after save_tool(c), get_tool(c.name)
\* is c and one configuration has that name; update_tool on a stored name
\* returns True and a stored configuration carries the fields of the update;
\* delete_tool returns True exactly when the name was stored, and then
\* get_tool gives None and the count is one less.
C23_StoreIsMap ==
    LET tools == load_all_tools(client.file)
    IN  /\ \A n \in {"a", "b"} : Cardinality(Named(tools, n)) <= 1
        /\ client.op = "save_tool" =>
              /\ client.ret
              /\ get_tool(client, client.name) = client.arg
              /\ Cardinality(Named(tools, client.name)) = 1
        /\ (client.op = "update_tool" /\ Named(client.before, client.name) # {}) =>
              /\ client.ret
              /\ \E i \in 1..Len(tools) :
                    \A k \in DOMAIN client.arg : tools[i][k] = client.arg[k]
        /\ client.op = "delete_tool" =>
              /\ client.ret <=> Named(client.before, client.name) # {}
              /\ client.ret => /\ get_tool(client, client.name) = NoTool
                               /\ Len(tools) = Len(client.before) - 1

ContinueWith(task) == "Based on the previous result, continue with: " \o task

\* C24 as stated: in SequentialOrchestrator.run the prepared 'continue with'
\* task string is discarded: every agent, the second and later ones
\* included, is run with the original task string itself.
C24_OriginalTaskReused ==
    orch.kind = "sequential" =>
        \A k \in 1..Len(orch.runs) : orch.runs[k].task = orch.task

\* C24, amended: the prepared 'continue with' string is what the second and
\* every later agent is run with; it is built on the original task each
\* round, so it is the same text for all of them and never the original
\* task itself; the context's previous_result advances from agent to agent.
C24_ContinueTaskIsPassed ==
    orch.kind = "sequential" =>
        \A k \in 2..Len(orch.runs) :
            /\ orch.runs[k].task = ContinueWith(orch.task)
            /\ orch.runs[k].task # orch.task
            /\ orch.runs[k].task # ContinueWith(ContinueWith(orch.task))
            /\ orch.runs[k].context.d["previous_result"] = orch.runs[k - 1].value

\* the third agent is being given the text the second one got
C24_Witness ==
    /\ orch.kind = "sequential" /\ Len(orch.runs) = 3
    /\ orch.runs[3].task = orch.runs[2].task
    /\ orch.runs[2].task = ContinueWith(orch.runs[1].task)

HasFinalAnswerKey(text) ==
    ParsedObject(text).kind = "dict" /\ "final_answer" \in ParsedObject(text).has

\* C25: whenever the model output decodes to an object containing a
\* final_answer key, for every value of that key, the empty string included,
\* the run ends with a final answer whose value is the value of the key
\* (run returns it, run_stream ends with a final_answer event), never with
\* the raw model output.
C25_FinalAnswerKeyEnds ==
    (agent.response.success /\ HasFinalAnswerKey(LatestOutput(agent)))
    => /\ agent.pc = "returned" /\ agent.outcome = "final_answer"
       /\ agent.mode = "run"
          => /\ agent.result = ParsedObject(LatestOutput(agent)).final_answer
             /\ agent.result # VStr(LatestOutput(agent))
       /\ agent.mode = "stream"
          => /\ Last(agent.events).type = "final_answer"
             /\ Last(agent.events).content =
                   FinalAnswerPrefix \o ParsedObject(LatestOutput(agent)).final_answer.str

\* C26: blocking and incremental mode run the same state machine: for the
\* same configuration, task, model outputs and tool results, run and a fully
\* consumed run_stream make the same model calls and tool dispatches, end in
\* the same kind of terminal state, and leave the same conversation_history
\* and the same sequence of execution-log event kinds.
C26_SameStateMachine ==
    /\ agent.pc = twin.pc
    /\ agent.calls = twin.calls /\ agent.sent = twin.sent
    /\ agent.tool_results = twin.tool_results /\ agent.tool_raised = twin.tool_raised
    /\ agent.outcome = twin.outcome /\ agent.raised = twin.raised
    /\ agent.conversation_history = twin.conversation_history
    /\ EventTypes(agent.execution_log) = EventTypes(twin.execution_log)

\* the prompt a newly constructed agent with the settings of a and the
\* tools a now holds would have
FreshPrompt(a) ==
    Agent_init(a.name, a.tools, a.custom_instructions, a.role, a.use_react).system_prompt

\* C27: after add_tool, and after a remove_tool that returns True, the
\* system prompt is rebuilt from the current tool set in the prompt form the
\* constructor produced for this agent, so it equals the prompt of a newly
\* constructed agent with the same settings and the resulting tools; a
\* remove_tool that returns False leaves the tools and the prompt unchanged.
C27_PromptRebuilt ==
    /\ (agent.op = "add_tool" \/ (agent.op = "remove_tool" /\ agent.ret))
       => agent.system_prompt = FreshPrompt(agent)
    /\ (agent.op = "remove_tool" /\ ~agent.ret)
       => agent.tools = agent.tools0 /\ agent.system_prompt = agent.prompt0

\* the entries conversation_history gained in the run in progress or just
\* ended: the run started from the history that _prepare_messages copied
\* between the system prompt and the user message
GainedHistory(a) ==
    SubSeq(a.conversation_history, Len(a.prepared) - 1, Len(a.conversation_history))

\* C28: with memory enabled, the messages a run appends to
\* conversation_history keep conversational order: the user message carrying
\* the run's task precedes every assistant tool-call message and observation
\* appended by that run, and the final answer comes last.
C28_HistoryInOrder ==
    (agent.memory_enabled /\ agent.mode # "" /\ GainedHistory(agent) # <<>>
        /\ Len(agent.conversation_history) <= HistoryWindow)
    => /\ GainedHistory(agent)[1] = Msg("user", agent.task)
       /\ agent.outcome \in {"final_answer", "response"}
          => Last(GainedHistory(agent)).role = "assistant"

\* C29: with memory enabled, a run that ends in an LLM error or in
\* maximum-iterations-reached leaves conversation_history exactly as it was
\* before the run: memory gains complete exchanges only.
C29_FailedRunLeavesMemory ==
    (agent.memory_enabled /\ agent.pc = "returned"
        /\ agent.outcome \in {"error", "max_iterations"}
        /\ Len(agent.conversation_history) <= HistoryWindow)
    => GainedHistory(agent) = <<>>


\* C30: when an orchestrator's run returns, the caller's context mapping holds
\* exactly the keys and values it held when it was passed in (passed is the
\* value at the call, context is the caller's object as the run leaves it).
C30_CallerContextUnchanged ==
    orch.pc = "returned" => orch.context = orch.passed

====
